---- MODULE Spec2Model ----
(***************************************************************************)
(* State-machine model of the SwarmFS terminal client (tui-rs): the RPC    *)
(* client and event thread of ipc/mod.rs, the event decoding of            *)
(* ipc/types.rs, the tick loop of main.rs and the background jobs of the   *)
(* Network and Files tabs (tabs/network.rs, tabs/stubs.rs).                *)
(***************************************************************************)
EXTENDS Integers, Sequences, FiniteSets, TLC

\* ------------------------------------------------------------------ bounds
MaxCalls == 2      \* calls made on one RpcClient
MaxLines == 3      \* lines one rpc() call reads before the model stops it
MaxFrames == 2     \* frames the daemon pushes on the subscription connection
MaxJobs == 3       \* threads the two tabs spawn in one run

\* ------------------------------------------------------------ JSON values
\* A JSON field is modelled by a record [t, s]: t is the JSON type of the
\* field ("absent" when the key is missing) and s its content, always a
\* sequence of strings.  A string is the sequence of its tokens, so that
\* "state.files" is <<"state", ".", "files">> and prefixes can be tested.
Absent == [t |-> "absent", s |-> <<>>]
Null == [t |-> "null", s |-> <<>>]
JStr(s) == [t |-> "str", s |-> s]
JNum(s) == [t |-> "num", s |-> s]
JBool(b) == [t |-> "bool", s |-> <<IF b THEN "true" ELSE "false">>]

\* Value::as_str and Value::as_bool on a field obtained with Value::get:
\* an Option, modelled as a sequence of length 0 or 1
AsStr(v) == IF v.t = "str" THEN <<v.s>> ELSE <<>>
AsBool(v) == IF v.t = "bool" THEN <<v.s[1] = "true">> ELSE <<>>

\* u64::to_string: the decimal digits of n, most significant first
DigitChars == <<"0", "1", "2", "3", "4", "5", "6", "7", "8", "9">>
RECURSIVE Digits(_)
Digits(n) ==
  IF n < 10 THEN <<DigitChars[n + 1]>>
  ELSE Digits(n \div 10) \o <<DigitChars[(n % 10) + 1]>>

\* A JSON object is [t |-> "obj", s |-> <<k1, t1, v1, k2, t2, v2, ...>>]:
\* its keys with the type and the content of each value, flattened.
JObj(s) == [t |-> "obj", s |-> s]

\* Value::get(key): the value of the key, Absent when v is no object or has
\* no such key
RECURSIVE GetFrom(_, _)
GetFrom(s, key) ==
  IF Len(s) < 3 THEN Absent
  ELSE IF s[1] = key THEN [t |-> s[2], s |-> <<s[3]>>]
  ELSE GetFrom(SubSeq(s, 4, Len(s)), key)

Get(v, key) == IF v.t = "obj" THEN GetFrom(v.s, key) ELSE Absent

\* str::starts_with
StartsWith(s, p) == Len(s) >= Len(p) /\ SubSeq(s, 1, Len(p)) = p

VARIABLES
  next_id,     \* RpcClient.next_id
  rpc_pc,      \* "idle" or "reading": position of the caller inside rpc()
  rpc_id,      \* the local `id` of the call in progress
  rpc_buf,     \* the line last read into `buf` by the call in progress
  rpc_nread,   \* lines read by the call in progress
  rpc_skip,    \* the frame the call in progress skipped last (history)
  rpc_ret,     \* what the last finished call returned
  rpc_eof,     \* the connection has delivered end of stream
  rpc_sent,    \* the "id" of each request frame passed to write_all (history)
  evt_pc,      \* event_thread: "connect", "reading" or "done"
  evt_q,       \* the mpsc channel evt_tx -> evt_rx of main
  wire_log,    \* the lines event_thread has read, in order (history)
  delivered,   \* the events handed to App::on_daemon_event, in order (history)
  daemon,      \* the daemon: its topics, the joined ones, its files
  ui_pc,       \* main: "start", then "poll", "drain", "input" in each tick
  app,         \* App
  net,         \* NetworkTab
  jl_jobs,     \* the threads spawned by join_selected and leave_selected
  files,       \* FilesTab
  vjobs,       \* the threads spawned by verify_selected
  ijobs        \* the threads spawned by request_focused_info_if_needed

rpcVars ==
  <<next_id, rpc_pc, rpc_id, rpc_buf, rpc_nread, rpc_skip, rpc_ret, rpc_eof,
    rpc_sent>>

evtVars == <<evt_pc, evt_q, wire_log, delivered>>

netVars == <<net, jl_jobs>>

filesVars == <<files, vjobs, ijobs>>

uiVars == <<ui_pc, app>>

envVars == <<daemon>>

vars == <<rpcVars, evtVars, envVars, uiVars, netVars, filesVars>>

\* ------------------------------------------------------------- RPC client
NoLine == [parse |-> "none", type |-> Absent, id |-> Absent, ok |-> Absent,
           result |-> Absent, emsg |-> Absent]
Eof == [NoLine EXCEPT !.parse = "eof"]
BadLine == [NoLine EXCEPT !.parse = "bad"]
BlankLine == [NoLine EXCEPT !.parse = "blank"]
IoErr == [NoLine EXCEPT !.parse = "ioerr"]

IdValues == {JStr(<<"1">>), JStr(<<"2">>), JStr(<<"0", "2">>), JNum(<<"2">>), Absent}

\* The frames the daemon may put on a request connection.
ResLines ==
  {[parse |-> "json", type |-> JStr(<<"res">>), id |-> i, ok |-> JBool(TRUE),
    result |-> r, emsg |-> Absent] : i \in IdValues, r \in {JStr(<<"r1">>), Absent}}
  \cup
  {[parse |-> "json", type |-> JStr(<<"res">>), id |-> i, ok |-> o,
    result |-> Absent, emsg |-> m] :
      i \in IdValues, o \in {JBool(FALSE), Absent}, m \in {JStr(<<"boom">>), Absent}}

OtherLines ==
  {[parse |-> "json", type |-> t, id |-> i, ok |-> JBool(TRUE),
    result |-> JStr(<<"r1">>), emsg |-> Absent] :
      t \in {JStr(<<"evt">>), JNum(<<"0">>), Absent},
      i \in {JStr(<<"1">>), JStr(<<"2">>)}}

RpcLines == ResLines \cup OtherLines \cup {BadLine, BlankLine}

\* Result<Value>: Ok(value) or Err(message); RetNone while nothing returned
RetNone == [ok |-> FALSE, val |-> Absent]
RetOk(v) == [ok |-> TRUE, val |-> v]
RetErr(m) == [ok |-> FALSE, val |-> JStr(<<m>>)]

\* serde_json::from_str(buf.trim()): a blank or malformed line is an Err
ParsesAsJson(l) == l.parse = "json"

\* msg.get("type").and_then(|v| v.as_str()) != Some("res")
IsResponse(l) == AsStr(l.type) = <<(<<"res">>)>>

\* (a comparison that accepts any string id)
IdMatchesAnyString(l, id) == AsStr(l.id) # <<>>

\* msg.get("id").and_then(|v| v.as_str()) != Some(&id.to_string())
IdMatches(l, id) == AsStr(l.id) = <<Digits(id)>>

\* msg.get("result").cloned().unwrap_or(Value::Null)
ResultOf(l) == IF l.result.t = "absent" THEN Null ELSE l.result

\* (an error that never carries the message of the daemon)
ErrorOfGenericOnly(l) == JStr(<<"RPC error">>)

\* error.message as a string, or "RPC error"
ErrorOf(l) == IF AsStr(l.emsg) = <<>> THEN JStr(<<"RPC error">>) ELSE l.emsg

\* (a client that takes a new id only after a call that succeeded)
RpcCallKeepingIdOnFailure ==
  /\ rpc_pc = "idle"
  /\ next_id <= MaxCalls
  /\ rpc_id' = next_id
  /\ next_id' = IF rpc_ret.ok \/ rpc_ret = RetNone THEN next_id + 1 ELSE next_id
  /\ rpc_buf' = NoLine
  /\ rpc_nread' = 0
  /\ rpc_skip' = NoLine
  /\ rpc_sent' = Append(rpc_sent, JStr(Digits(next_id)))
  /\ Len(rpc_sent) <= MaxCalls
  /\ \/ /\ rpc_pc' = "reading"
        /\ rpc_ret' = RetNone
     \/ /\ rpc_eof
        /\ rpc_pc' = "idle"
        /\ rpc_ret' = RetErr("io error")
  /\ UNCHANGED <<rpc_eof, evtVars, envVars, uiVars, netVars, filesVars>>

\* rpc(): allocate the id, write the request frame, start reading.
RpcCall ==
  /\ rpc_pc = "idle"
  /\ next_id <= MaxCalls
  /\ rpc_id' = next_id
  /\ next_id' = next_id + 1                \* u64: no wrap below 2^64 calls
  /\ rpc_buf' = NoLine
  /\ rpc_nread' = 0
  /\ rpc_skip' = NoLine
  /\ rpc_sent' = Append(rpc_sent, JStr(Digits(next_id)))
  /\ \/ /\ rpc_pc' = "reading"              \* write_all and flush succeeded
        /\ rpc_ret' = RetNone
     \/ /\ rpc_eof                          \* the peer is gone: write_all fails
        /\ rpc_pc' = "idle"
        /\ rpc_ret' = RetErr("io error")
  /\ UNCHANGED <<rpc_eof, evtVars, envVars, uiVars, netVars, filesVars>>

\* (a loop that reads on after a zero-byte read)
RpcStepReadingOnAtEof(l, id) ==
  IF l.parse = "ioerr" THEN [pc |-> "idle", ret |-> RetErr("io error")]
  ELSE IF l.parse = "eof" THEN [pc |-> "reading", ret |-> RetNone]
  ELSE IF ~ParsesAsJson(l) THEN [pc |-> "idle", ret |-> RetErr("parse error")]
  ELSE IF ~IsResponse(l) THEN [pc |-> "reading", ret |-> RetNone]
  ELSE IF ~IdMatches(l, id) THEN [pc |-> "reading", ret |-> RetNone]
  ELSE IF AsBool(l.ok) = <<TRUE>> THEN [pc |-> "idle", ret |-> RetOk(ResultOf(l))]
  ELSE [pc |-> "idle", ret |-> [ok |-> FALSE, val |-> ErrorOf(l)]]

\* What one pass of the read loop does with the line it read.
RpcStep(l, id) ==
  IF l.parse = "ioerr" THEN [pc |-> "idle", ret |-> RetErr("io error")]
  ELSE IF l.parse = "eof" THEN [pc |-> "idle", ret |-> RetErr("daemon disconnected")]
  ELSE IF ~ParsesAsJson(l) THEN [pc |-> "idle", ret |-> RetErr("parse error")]
  ELSE IF ~IsResponse(l) THEN [pc |-> "reading", ret |-> RetNone]
  ELSE IF ~IdMatches(l, id) THEN [pc |-> "reading", ret |-> RetNone]
  ELSE IF AsBool(l.ok) = <<TRUE>> THEN [pc |-> "idle", ret |-> RetOk(ResultOf(l))]
  ELSE [pc |-> "idle", ret |-> [ok |-> FALSE, val |-> ErrorOf(l)]]

\* One pass of the loop of rpc(): read a line and act on it.
RpcReadLine ==
  /\ rpc_pc = "reading"
  /\ rpc_nread < MaxLines
  /\ \E l \in (IF rpc_eof THEN {Eof} ELSE RpcLines \cup {Eof, IoErr}) :
       /\ rpc_buf' = l
       /\ rpc_eof' = (l.parse \in {"eof", "ioerr"})
       /\ rpc_pc' = RpcStep(l, rpc_id).pc
       /\ rpc_ret' = RpcStep(l, rpc_id).ret
       /\ rpc_skip' = IF RpcStep(l, rpc_id).pc = "reading" THEN l ELSE rpc_skip
  /\ rpc_nread' = rpc_nread + 1
  /\ UNCHANGED <<next_id, rpc_id, rpc_sent, evtVars, envVars, uiVars, netVars, filesVars>>

\* ------------------------------------------------------- event decoding
\* LogEntry::try_from: never fails, a missing field takes its default.
NoLog == [ts |-> <<>>, level |-> <<>>, message |-> <<>>]

LogEntryFrom(v) ==
  [ts |-> IF Get(v, "ts").t = "num" THEN Get(v, "ts").s ELSE <<"0">>,
   level |-> IF Get(v, "level").t = "str" THEN Get(v, "level").s ELSE <<"info">>,
   message |-> IF Get(v, "message").t = "str" THEN Get(v, "message").s ELSE <<>>]

\* A DaemonEvent: kind is the variant of DaemonEvent, sub the variant of
\* NetworkEvent or StateEvent, name and data the fields of Other.
Event(kind, sub, name, data, log) ==
  [kind |-> kind, sub |-> sub, name |-> name, data |-> data, log |-> log]

\* (a decoder that keeps the payload of Other but not its name)
StateEventFromNameless(name, data) ==
  IF name = <<"state", ".", "files">> THEN Event("State", "Files", <<>>, data, NoLog)
  ELSE IF name = <<"state", ".", "topics">> THEN Event("State", "Topics", <<>>, data, NoLog)
  ELSE Event("State", "Other", <<>>, data, NoLog)

\* StateEvent::from_event_name
StateEventFrom(name, data) ==
  IF name = <<"state", ".", "files">> THEN Event("State", "Files", <<>>, data, NoLog)
  ELSE IF name = <<"state", ".", "topics">> THEN Event("State", "Topics", <<>>, data, NoLog)
  ELSE Event("State", "Other", name, data, NoLog)

\* NetworkEvent::from_event_name
NetworkEventFrom(name, data) ==
  IF name = <<"network", ".", "stats">> THEN Event("Network", "Stats", <<>>, data, NoLog)
  ELSE Event("Network", "Other", name, data, NoLog)

\* v.get("event").and_then(|x| x.as_str()).unwrap_or("")
EventName(v) == IF v.event.t = "str" THEN v.event.s ELSE <<>>

\* v.get("data").cloned().unwrap_or(Value::Null)
EventData(v) == IF v.data.t = "absent" THEN Null ELSE v.data

\* impl TryFrom<Value> for DaemonEvent: [ok, evt]
NoEvent == Event("none", "none", <<>>, Absent, NoLog)

\* (a decoder with an opaque variant for the names of every namespace)
TryFromValueOpaque(v) ==
  IF EventName(v) = <<"log">>
  THEN [ok |-> TRUE, evt |-> Event("Log", "Entry", <<>>, Absent, LogEntryFrom(EventData(v)))]
  ELSE IF StartsWith(EventName(v), <<"network", ".">>)
  THEN [ok |-> TRUE, evt |-> NetworkEventFrom(EventName(v), EventData(v))]
  ELSE IF StartsWith(EventName(v), <<"state", ".">>)
  THEN [ok |-> TRUE, evt |-> StateEventFrom(EventName(v), EventData(v))]
  ELSE [ok |-> TRUE, evt |-> Event("Other", "Other", EventName(v), EventData(v), NoLog)]

TryFromValue(v) ==
  IF EventName(v) = <<"log">>
  THEN [ok |-> TRUE, evt |-> Event("Log", "Entry", <<>>, Absent, LogEntryFrom(EventData(v)))]
  ELSE IF StartsWith(EventName(v), <<"network", ".">>)
  THEN [ok |-> TRUE, evt |-> NetworkEventFrom(EventName(v), EventData(v))]
  ELSE IF StartsWith(EventName(v), <<"state", ".">>)
  THEN [ok |-> TRUE, evt |-> StateEventFrom(EventName(v), EventData(v))]
  ELSE [ok |-> FALSE, evt |-> NoEvent]

\* ----------------------------------------------------------- event thread
\* The lines the daemon may put on the subscription connection.
EvtFrame(name, data) ==
  [parse |-> "json", type |-> JStr(<<"evt">>), event |-> name, data |-> data]

EvtNames ==
  {JStr(<<"network", ".", "stats">>), JStr(<<"network", ".", "peers">>),
   JStr(<<"state", ".", "files">>), JStr(<<"state", ".", "topics">>),
   JStr(<<"state", ".", "unknown_future_kind">>),
   JStr(<<"download", ".", "progress">>), JStr(<<"state">>), Absent}

EvtLines ==
  {EvtFrame(n, JStr(<<"d1">>)) : n \in EvtNames}
  \cup {EvtFrame(JStr(<<"state", ".", "unknown_future_kind">>), Absent),
        EvtFrame(JStr(<<"log">>), JObj(<<"level", "str", "warn", "message", "str", "m1">>)),
        EvtFrame(JStr(<<"log">>), Absent),
        [parse |-> "json", type |-> JStr(<<"res">>), event |-> Absent, data |-> Absent],
        [parse |-> "bad", type |-> Absent, event |-> Absent, data |-> Absent],
        [parse |-> "blank", type |-> Absent, event |-> Absent, data |-> Absent]}

EvtEnd ==
  {[parse |-> "eof", type |-> Absent, event |-> Absent, data |-> Absent],
   [parse |-> "ioerr", type |-> Absent, event |-> Absent, data |-> Absent]}

\* event_thread up to its loop: connect and write the subscription request;
\* either may fail, which ends the thread (the error is dropped by the caller).
EvtConnect ==
  /\ evt_pc = "connect"
  /\ evt_pc' \in {"reading", "done"}
  /\ UNCHANGED <<evt_q, wire_log, delivered, rpcVars, envVars, uiVars, netVars, filesVars>>

\* What one pass of the loop of event_thread sends for the line it read:
\* the events pushed to the channel (none or one).
EvtSends(l) ==
  IF l.parse # "json" THEN <<>>
  ELSE IF AsStr(l.type) # <<(<<"evt">>)>> THEN <<>>
  ELSE IF TryFromValue(l).ok THEN <<TryFromValue(l).evt>>
  ELSE <<>>

\* (a loop that returns at a line that does not parse, as rpc() does)
EvtReadLineEndingAtBadLine ==
  /\ evt_pc = "reading"
  /\ \E l \in (IF Len(wire_log) < MaxFrames THEN EvtLines ELSE {}) \cup EvtEnd :
       IF l \in EvtEnd
       THEN /\ evt_pc' = "done"
            /\ UNCHANGED <<evt_q, wire_log>>
       ELSE /\ evt_pc' = IF l.parse = "json" THEN "reading" ELSE "done"
            /\ wire_log' = Append(wire_log, l)
            /\ evt_q' = evt_q \o EvtSends(l)
  /\ UNCHANGED <<delivered, rpcVars, envVars, uiVars, netVars, filesVars>>

\* (a thread that connects and subscribes again when the stream ends)
EvtReadLineReconnecting ==
  /\ evt_pc = "reading"
  /\ \E l \in (IF Len(wire_log) < MaxFrames THEN EvtLines ELSE {}) \cup EvtEnd :
       IF l \in EvtEnd
       THEN /\ evt_pc' = IF Len(wire_log) < MaxFrames THEN "connect" ELSE "done"
            /\ UNCHANGED <<evt_q, wire_log>>
       ELSE /\ evt_pc' = "reading"
            /\ wire_log' = Append(wire_log, l)
            /\ evt_q' = evt_q \o EvtSends(l)
  /\ UNCHANGED <<delivered, rpcVars, envVars, uiVars, netVars, filesVars>>

\* One pass of the loop of event_thread.
EvtReadLine ==
  /\ evt_pc = "reading"
  /\ \E l \in (IF Len(wire_log) < MaxFrames THEN EvtLines ELSE {}) \cup EvtEnd :
       IF l \in EvtEnd
       THEN /\ evt_pc' = "done"
            /\ UNCHANGED <<evt_q, wire_log>>
       ELSE /\ evt_pc' = "reading"
            /\ wire_log' = Append(wire_log, l)
            /\ evt_q' = evt_q \o EvtSends(l)
  /\ UNCHANGED <<delivered, rpcVars, envVars, uiVars, netVars, filesVars>>

EvtInit ==
  /\ evt_pc = "connect"
  /\ evt_q = <<>>
  /\ wire_log = <<>>
  /\ delivered = <<>>

\* ------------------------------------------------------------ the daemon
\* Option<T>: None, or Some(x)
None == <<>>
Some(x) == <<x>>

\* TableState::selected() == None
NoneIdx == -1

\* The topics the daemon may know, in the order it lists them.
TopicOrder == <<"A", "B">>
Topics == {TopicOrder[i] : i \in 1..Len(TopicOrder)}

\* The paths the daemon may track, in the order it lists them (and in the
\* order of a BTreeSet<String>).
PathOrder == <<"p1", "p2", "p3">>

\* The paths the daemon tracks when main starts, and those of a larger share
Paths == {"p1", "p2"}
BatchPaths == {PathOrder[i] : i \in 1..Len(PathOrder)}

\* The members of a set of paths in that order
RECURSIVE InOrder(_, _)
InOrder(order, set) ==
  IF order = <<>> THEN <<>>
  ELSE (IF Head(order) \in set THEN <<Head(order)>> ELSE <<>>)
       \o InOrder(Tail(order), set)

\* What a call on a working connection returns: "ok", or "err" (the daemon
\* answers ok:false, or the call fails otherwise).
Outcomes == {"ok", "err"}

\* e.to_string() of the error a failed call returns
ErrMsg(o) == IF o = "lost" THEN "daemon disconnected" ELSE "RPC error"

\* The daemon refuses a request about a topic it does not know.
Answer(o, known) == IF o = "ok" /\ ~known THEN "err" ELSE o

\* network.overview: the rows of the daemon's topics, with the version of the
\* daemon state they were read from (history)
RECURSIVE RowsOf(_, _)
RowsOf(order, d) ==
  IF order = <<>> THEN <<>>
  ELSE (IF Head(order) \in d.topics
        THEN <<[name |-> Head(order), joined |-> Head(order) \in d.joined]>>
        ELSE <<>>) \o RowsOf(Tail(order), d)

Overview(d) == [rows |-> RowsOf(TopicOrder, d), ver |-> d.ver]
NoOverview == [rows |-> <<>>, ver |-> -1]

\* topic.join, topic.leave and topic.rm as the daemon executes them
DJoin(d, name) ==
  IF name \in d.joined THEN d
  ELSE [d EXCEPT !.joined = @ \cup {name}, !.ver = @ + 1]

DLeave(d, name) ==
  IF name \notin d.joined THEN d
  ELSE [d EXCEPT !.joined = @ \ {name}, !.ver = @ + 1]

DRemove(d, name) ==
  [d EXCEPT !.topics = @ \ {name}, !.joined = @ \ {name}, !.ver = @ + 1]

\* The threads spawned so far
Spawned == Len(jl_jobs) + Len(vjobs) + Len(ijobs)

\* ------------------------------------------------------------ NetworkTab
\* parse_overview_topics
parse_overview_topics(v) == v.rows

\* The table selection refresh() and poll_async() leave after a new list
Reselect(rows, selected) ==
  IF rows = <<>> THEN NoneIdx
  ELSE IF selected = NoneIdx THEN 0
  ELSE selected

\* (a refresh that empties the list when the call fails)
NetRefreshClearingOnError(n, o, d) ==
  IF o = "ok"
  THEN [n EXCEPT !.topics = parse_overview_topics(Overview(d)),
                 !.shown_ver = d.ver,
                 !.selected = Reselect(parse_overview_topics(Overview(d)), n.selected),
                 !.last_error = None]
  ELSE [n EXCEPT !.topics = <<>>, !.selected = NoneIdx,
                 !.last_error = Some(ErrMsg(o))]

\* (a refresh that also takes the busy indicator down)
NetRefreshClearingBusy(n, o, d) ==
  IF o = "ok"
  THEN [n EXCEPT !.topics = parse_overview_topics(Overview(d)),
                 !.shown_ver = d.ver,
                 !.selected = Reselect(parse_overview_topics(Overview(d)), n.selected),
                 !.join_leave_busy = None,
                 !.last_error = None]
  ELSE [n EXCEPT !.last_error = Some(ErrMsg(o))]

\* NetworkTab::refresh, given what rpc("network.overview") returned
NetRefresh(n, o, d) ==
  IF o = "ok"
  THEN [n EXCEPT !.topics = parse_overview_topics(Overview(d)),
                 !.shown_ver = d.ver,
                 !.selected = Reselect(parse_overview_topics(Overview(d)), n.selected),
                 !.last_error = None]
  ELSE [n EXCEPT !.last_error = Some(ErrMsg(o))]

\* NetworkTab::selected_topic_name
selected_topic_name(n) ==
  IF n.selected # NoneIdx /\ n.selected < Len(n.topics)
  THEN Some(n.topics[n.selected + 1].name)
  ELSE None

\* (u64, JoinLeaveMsg); job is the thread that sent it (history)
JoinLeaveMsg(req_id, kind, overview, message, job) ==
  [req_id |-> req_id, kind |-> kind, overview |-> overview, message |-> message,
   job |-> job]

\* poll_async: the match on one received message
NetApply(n, m) ==
  IF m.req_id # n.join_leave_req_id THEN n
  ELSE IF m.kind = "Done"
  THEN [n EXCEPT !.topics = parse_overview_topics(m.overview),
                 !.shown_ver = m.overview.ver,
                 !.selected = Reselect(parse_overview_topics(m.overview), n.selected),
                 !.join_leave_busy = None,
                 !.last_error = None,
                 !.applied = @ \cup {m.job}]
  ELSE [n EXCEPT !.join_leave_busy = None,
                 !.last_error = Some(m.message),
                 !.applied = @ \cup {m.job}]

RECURSIVE NetPollFold(_, _)
NetPollFold(n, q) ==
  IF q = <<>> THEN n ELSE NetPollFold(NetApply(n, Head(q)), Tail(q))

\* NetworkTab::poll_async: drain join_leave_rx; applied is the set of jobs
\* whose messages this call applied (history)
NetPoll(n) ==
  [NetPollFold([n EXCEPT !.applied = {}], n.join_leave_q)
     EXCEPT !.join_leave_q = <<>>]

\* (a dispatch that keeps the receiver and the generation it has)
KeptChannel(rx, req_id, fresh) == [rx |-> rx, req_id |-> req_id]

\* (a dispatch that makes a new channel and keeps the generation)
NewChannelSameGeneration(rx, req_id, fresh) == [rx |-> fresh, req_id |-> req_id]

\* The channel and the generation of a dispatch: mpsc::channel() replaces
\* the receiver, req_id.wrapping_add(1) is the new generation (a u64: no wrap
\* below 2^64 dispatches).
NewChannel(rx, req_id, fresh) == [rx |-> fresh, req_id |-> req_id + 1]

\* join_selected / leave_selected up to thread::spawn
NetDispatch(n, cls, name, fresh) ==
  LET c == NewChannel(n.join_leave_rx, n.join_leave_req_id, fresh) IN
  [n EXCEPT !.join_leave_rx = c.rx,
            !.join_leave_q = IF c.rx = n.join_leave_rx THEN @ ELSE <<>>,
            !.join_leave_req_id = c.req_id,
            !.join_leave_busy =
               Some(<<IF cls = "join" THEN "joining" ELSE "leaving", name>>),
            !.last_error = None]

\* The thread join_selected / leave_selected spawns: the captured name,
\* req_id and tx (chan: the channel tx sends on), and where the thread is.
\* late: the thread wrote its topic.join / topic.leave request after a newer
\* dispatch had replaced its channel (history)
JoinLeaveJob(cls, name, req_id, chan) ==
  [cls |-> cls, name |-> name, req_id |-> req_id, chan |-> chan,
   pc |-> "connect", dropped |-> FALSE, late |-> FALSE]

\* join_selected (cls = "join") and leave_selected (cls = "leave")
JoinLeaveSelected(cls) ==
  /\ ui_pc = "input"
  /\ app.active_tab = "Network"
  /\ Spawned < MaxJobs
  /\ IF selected_topic_name(net) = None
     THEN UNCHANGED <<net, jl_jobs>>
     ELSE LET name == selected_topic_name(net)[1]
              n2 == NetDispatch(net, cls, name, Len(jl_jobs) + 1)
          IN /\ net' = n2
             /\ jl_jobs' = Append(jl_jobs,
                  JoinLeaveJob(cls, name, n2.join_leave_req_id, n2.join_leave_rx))
  /\ ui_pc' = "poll"
  /\ UNCHANGED <<app, envVars, rpcVars, evtVars, filesVars>>

JoinSelected == JoinLeaveSelected("join")

LeaveSelected == JoinLeaveSelected("leave")

\* (a thread that ends on a failure without sending anything)
JLSendOnSuccessOnly(i, msg) ==
  /\ jl_jobs' = [jl_jobs EXCEPT ![i].pc = "done",
                                ![i].dropped = \/ net.join_leave_rx # jl_jobs[i].chan
                                               \/ msg.kind = "Error"]
  /\ net' = IF net.join_leave_rx = jl_jobs[i].chan /\ msg.kind = "Done"
            THEN [net EXCEPT !.join_leave_q = Append(@, msg)]
            ELSE net

\* tx.send((req_id, msg)) at the end of the thread: the message reaches the
\* tab only while the tab still holds the receiver of this channel.
JLSend(i, msg) ==
  /\ jl_jobs' = [jl_jobs EXCEPT ![i].pc = "done",
                                ![i].dropped = (net.join_leave_rx # jl_jobs[i].chan)]
  /\ net' = IF net.join_leave_rx = jl_jobs[i].chan
            THEN [net EXCEPT !.join_leave_q = Append(@, msg)]
            ELSE net

\* The thread: IpcClient::connect(endpoint)
JLConnect ==
  \E i \in 1..Len(jl_jobs) :
    /\ jl_jobs[i].pc = "connect"
    /\ \/ /\ jl_jobs' = [jl_jobs EXCEPT ![i].pc = "call"]
          /\ UNCHANGED net
       \/ JLSend(i, JoinLeaveMsg(jl_jobs[i].req_id, "Error", NoOverview,
                                 "connect IPC", i))
    /\ UNCHANGED <<envVars, uiVars, rpcVars, evtVars, filesVars>>

\* (a thread that writes its request with the RpcClient of the UI thread)
JLCallOnPrimaryClient ==
  \E i \in 1..Len(jl_jobs), o \in Outcomes :
    /\ jl_jobs[i].pc = "call"
    /\ LET a == Answer(o, jl_jobs[i].name \in daemon.topics) IN
       IF a = "ok"
       THEN /\ daemon' = IF jl_jobs[i].cls = "join"
                         THEN DJoin(daemon, jl_jobs[i].name)
                         ELSE DLeave(daemon, jl_jobs[i].name)
            /\ jl_jobs' = [jl_jobs EXCEPT ![i].pc = "overview",
                  ![i].late = (net.join_leave_rx # jl_jobs[i].chan)]
            /\ UNCHANGED net
       ELSE /\ JLSend(i, JoinLeaveMsg(jl_jobs[i].req_id, "Error", NoOverview,
                                      ErrMsg(a), i))
            /\ UNCHANGED daemon
    /\ next_id' = next_id + 1
    /\ UNCHANGED <<rpc_pc, rpc_id, rpc_buf, rpc_nread, rpc_skip, rpc_ret, rpc_eof,
                   rpc_sent>>
    /\ UNCHANGED <<uiVars, evtVars, filesVars>>

\* The thread: c.rpc("topic.join" / "topic.leave", {"name": name})
JLCall ==
  \E i \in 1..Len(jl_jobs), o \in Outcomes :
    /\ jl_jobs[i].pc = "call"
    /\ LET a == Answer(o, jl_jobs[i].name \in daemon.topics) IN
       IF a = "ok"
       THEN /\ daemon' = IF jl_jobs[i].cls = "join"
                         THEN DJoin(daemon, jl_jobs[i].name)
                         ELSE DLeave(daemon, jl_jobs[i].name)
            /\ jl_jobs' = [jl_jobs EXCEPT ![i].pc = "overview",
                  ![i].late = (net.join_leave_rx # jl_jobs[i].chan)]
            /\ UNCHANGED net
       ELSE /\ JLSend(i, JoinLeaveMsg(jl_jobs[i].req_id, "Error", NoOverview,
                                      ErrMsg(a), i))
            /\ UNCHANGED daemon
    /\ UNCHANGED <<uiVars, rpcVars, evtVars, filesVars>>

\* The thread: c.rpc("network.overview", {}) and the send of the result
JLOverview ==
  \E i \in 1..Len(jl_jobs), o \in Outcomes :
    /\ jl_jobs[i].pc = "overview"
    /\ IF o = "ok"
       THEN JLSend(i, JoinLeaveMsg(jl_jobs[i].req_id, "Done", Overview(daemon), "", i))
       ELSE JLSend(i, JoinLeaveMsg(jl_jobs[i].req_id, "Error", NoOverview,
                                   ErrMsg(o), i))
    /\ UNCHANGED <<envVars, uiVars, rpcVars, evtVars, filesVars>>

\* NetworkTab::new
NetNew ==
  [topics |-> <<>>, shown_ver |-> -1, selected |-> 0, last_error |-> None,
   join_leave_rx |-> 0, join_leave_q |-> <<>>, join_leave_req_id |-> 0,
   join_leave_busy |-> None, applied |-> {},
   topic_new |-> [open |-> FALSE, name |-> <<>>]]

NetInit ==
  /\ net = NetNew
  /\ jl_jobs = <<>>

\* -------------------------------------------------------------- FilesTab
\* parse_files_list of what files.list returns: the paths of the rows
parse_files_list(d) == InOrder(PathOrder, d.files)

\* FilesTab::selected_path
selected_path(f) ==
  IF f.selected # NoneIdx /\ f.selected < Len(f.entries)
  THEN Some(f.entries[f.selected + 1])
  ELSE None

\* The thread request_focused_info_if_needed spawns
InfoJob(path, req_id, chan) ==
  [path |-> path, req_id |-> req_id, chan |-> chan, pc |-> "call",
   dropped |-> FALSE]

\* (a request that leaves the info of the row focused before on display)
RequestInfoKeepingInfo(f, fresh) ==
  IF selected_path(f) = None
  THEN [tab |-> [f EXCEPT !.focused_path = None], jobs |-> <<>>]
  ELSE IF f.focused_path = selected_path(f)
  THEN [tab |-> f, jobs |-> <<>>]
  ELSE LET c == NewChannel(f.info_rx, f.info_req_id, fresh) IN
       [tab |-> [f EXCEPT !.focused_path = selected_path(f),
                          !.info_rx = c.rx,
                          !.info_q = IF c.rx = f.info_rx THEN @ ELSE <<>>,
                          !.info_req_id = c.req_id],
        jobs |-> <<InfoJob(selected_path(f)[1], c.req_id, c.rx)>>]

\* request_focused_info_if_needed: [tab, jobs], jobs the thread spawned if any
RequestInfo(f, fresh) ==
  IF selected_path(f) = None
  THEN [tab |-> [f EXCEPT !.focused_path = None, !.last_info = None], jobs |-> <<>>]
  ELSE IF f.focused_path = selected_path(f)
  THEN [tab |-> f, jobs |-> <<>>]
  ELSE LET c == NewChannel(f.info_rx, f.info_req_id, fresh) IN
       [tab |-> [f EXCEPT !.focused_path = selected_path(f),
                          !.last_info = None,
                          !.info_rx = c.rx,
                          !.info_q = IF c.rx = f.info_rx THEN @ ELSE <<>>,
                          !.info_req_id = c.req_id],
        jobs |-> <<InfoJob(selected_path(f)[1], c.req_id, c.rx)>>]

\* (a refresh that keeps every selected key)
retain_existing_keeping_all(sel, existing) == sel

\* MultiSelectState::retain_existing
retain_existing(sel, existing) == sel \cap existing

\* FilesTab::refresh, given what rpc("files.list") returned
FilesRefresh(f, o, d, fresh) ==
  IF o = "ok"
  THEN RequestInfo(
         [f EXCEPT !.entries = parse_files_list(d),
                   !.sel = retain_existing(f.sel, d.files),
                   !.selected = Reselect(parse_files_list(d), f.selected),
                   !.last_error = None], fresh)
  ELSE [tab |-> [f EXCEPT !.last_error = Some(ErrMsg(o))], jobs |-> <<>>]

\* FilesTab::set_focus
set_focus(f, idx, fresh) ==
  RequestInfo([f EXCEPT !.selected = idx, !.anchor = idx], fresh)

\* MultiSelectState::toggle
toggle(f, key, idx) ==
  [f EXCEPT !.sel = IF key \in @ THEN @ \ {key} ELSE @ \cup {key},
            !.anchor = idx]

\* MultiSelectState::set_anchor
set_anchor(f, idx) == [f EXCEPT !.anchor = idx]

\* MultiSelectState::clear
clear(f) == [f EXCEPT !.sel = {}, !.anchor = NoneIdx]

\* MultiSelectState::set_single
set_single(f, key, idx) == [f EXCEPT !.sel = {key}, !.anchor = idx]

\* keys.get(i) is Some for the indices below keys.len()
KeysAt(keys, from, to) == {keys[i + 1] : i \in {x \in from..to : x < Len(keys)}}

Min(a, b) == IF a <= b THEN a ELSE b
Max(a, b) == IF a <= b THEN b ELSE a

\* (a range that replaces the selection)
range_select_replacing(f, keys, target_idx) ==
  IF f.anchor = NoneIdx
  THEN IF target_idx < Len(keys)
       THEN set_single(f, keys[target_idx + 1], target_idx)
       ELSE f
  ELSE [f EXCEPT !.sel = KeysAt(keys, Min(f.anchor, target_idx),
                               Max(f.anchor, target_idx))]

\* (a range without an anchor that starts at the first row)
range_select_from_top(f, keys, target_idx) ==
  [f EXCEPT !.sel = @ \cup KeysAt(keys, Min(Max(f.anchor, 0), target_idx),
                                  Max(f.anchor, target_idx))]

\* MultiSelectState::range_select
range_select(f, keys, target_idx) ==
  IF f.anchor = NoneIdx
  THEN IF target_idx < Len(keys)
       THEN set_single(f, keys[target_idx + 1], target_idx)
       ELSE f
  ELSE [f EXCEPT !.sel = @ \cup KeysAt(keys, Min(f.anchor, target_idx),
                                       Max(f.anchor, target_idx))]

\* (an invert that keeps the selected keys that are not in the list)
invert_keeping_others(f, keys) ==
  [f EXCEPT !.sel = (@ \ KeysAt(keys, 0, Len(keys)))
                    \cup {k \in KeysAt(keys, 0, Len(keys)) : k \notin f.sel}]

\* MultiSelectState::invert
invert(f, keys) ==
  [f EXCEPT !.sel = {k \in KeysAt(keys, 0, Len(keys)) : k \notin f.sel}]

\* ---- FilePicker: the query and the rows it leaves visible ----

MaxLabel == 4
MaxQuery == 3

\* The characters of labels and queries: an ASCII letter in both cases, a
\* letter outside ASCII in both cases, and white space
\* ("e'" and "E'" stand for U+00E9 and U+00C9)
Chars == {"a", "A", "e'", "E'", " "}

\* (a comparison of the characters as they are)
to_ascii_lowercase_not_at_all(c) == c

\* char::to_ascii_lowercase: only A..Z are mapped
to_ascii_lowercase(c) ==
  CASE c = "A" -> "a" [] c = "D" -> "d" [] c = "X" -> "x" [] OTHER -> c

\* str::trim
RECURSIVE trim_start(_)
trim_start(s) ==
  IF s # <<>> /\ Head(s) = " " THEN trim_start(Tail(s)) ELSE s
RECURSIVE trim_end(_)
trim_end(s) ==
  IF s # <<>> /\ s[Len(s)] = " " THEN trim_end(SubSeq(s, 1, Len(s) - 1)) ELSE s
trim(s) == trim_end(trim_start(s))

\* subseq_score, the inner while loop: the first index from li on (counted
\* from 0) whose character equals qc in lower case, or NoneIdx
RECURSIVE ScanFrom(_, _, _)
ScanFrom(label_chars, qc, li) ==
  IF li >= Len(label_chars) THEN NoneIdx
  ELSE IF to_ascii_lowercase(label_chars[li + 1]) = to_ascii_lowercase(qc) THEN li
  ELSE ScanFrom(label_chars, qc, li + 1)

\* subseq_score, the for loop over q_chars: None as soon as a character is
\* not found, the match indices otherwise
RECURSIVE MatchIndices(_, _, _, _)
MatchIndices(label_chars, q_chars, li, match_indices) ==
  IF q_chars = <<>> THEN Some(match_indices)
  ELSE LET found == ScanFrom(label_chars, Head(q_chars), li)
       IN IF found = NoneIdx THEN None
          ELSE MatchIndices(label_chars, Tail(q_chars), found + 1,
                            Append(match_indices, found))

\* (a score without the bonus for consecutive matches)
ScoreOfCountAndStart(match_indices) ==
  10 * Len(match_indices) - match_indices[1]

\* subseq_score, the score of the match indices of a query that is not empty
ScoreOf(match_indices) ==
  10 * Len(match_indices)
  + 15 * Cardinality({w \in 1..(Len(match_indices) - 1) :
                        match_indices[w + 1] = match_indices[w] + 1})
  - match_indices[1]

\* subseq_score(label, query): Option<(i64, Vec<usize>)>
subseq_score(label, query) ==
  IF query = <<>> THEN Some([score |-> 0, match_indices |-> <<>>])
  ELSE LET m == MatchIndices(label, query, 0, <<>>)
       IN IF m = None THEN None
          ELSE Some([score |-> ScoreOf(m[1]), match_indices |-> m[1]])

\* The code point of a character (the order of char and of str::cmp)
CharCode(c) ==
  CASE c = " " -> 32 [] c = "A" -> 65 [] c = "D" -> 68 [] c = "X" -> 88
    [] c = "a" -> 97 [] c = "d" -> 100 [] c = "o" -> 111 [] c = "x" -> 120
    [] c = "E'" -> 201 [] c = "e'" -> 233

\* str::to_lowercase, character by character
to_lowercase(label) ==
  [i \in 1..Len(label) |->
     CASE label[i] = "A" -> "a" [] label[i] = "D" -> "d" [] label[i] = "X" -> "x"
       [] label[i] = "E'" -> "e'" [] OTHER -> label[i]]

\* str::cmp(a, b) = Less
RECURSIVE StrLess(_, _)
StrLess(a, b) ==
  IF b = <<>> THEN FALSE
  ELSE IF a = <<>> THEN TRUE
  ELSE IF Head(a) = Head(b) THEN StrLess(Tail(a), Tail(b))
  ELSE CharCode(Head(a)) < CharCode(Head(b))

\* (rows ordered by the label alone)
VisibleBeforeByLabel(items, a, b) ==
  StrLess(items[a.item_idx + 1], items[b.item_idx + 1])

\* recompute_visible, the comparison of vis.sort_by: the score descending,
\* then the label ascending
VisibleBefore(items, a, b) ==
  \/ a.score > b.score
  \/ /\ a.score = b.score
     /\ StrLess(items[a.item_idx + 1], items[b.item_idx + 1])

\* slice::sort_by is stable: a row goes before the first row it is less than
RECURSIVE InsertVisible(_, _, _)
InsertVisible(items, x, sorted) ==
  IF sorted = <<>> THEN <<x>>
  ELSE IF VisibleBefore(items, x, Head(sorted)) THEN <<x>> \o sorted
  ELSE <<Head(sorted)>> \o InsertVisible(items, x, Tail(sorted))
RECURSIVE SortVisible(_, _)
SortVisible(items, vis) ==
  IF vis = <<>> THEN <<>>
  ELSE InsertVisible(items, vis[Len(vis)],
                     SortVisible(items, SubSeq(vis, 1, Len(vis) - 1)))

\* recompute_visible, the rows pushed for the items from index i on
RECURSIVE MatchingRows(_, _, _)
MatchingRows(items, q, i) ==
  IF i > Len(items) THEN <<>>
  ELSE LET r == subseq_score(items[i], q)
       IN (IF r = None THEN <<>>
           ELSE <<[item_idx |-> i - 1, score |-> r[1].score,
                   match_indices |-> r[1].match_indices]>>)
          \o MatchingRows(items, q, i + 1)

\* FilePicker::recompute_visible over the labels of the items
recompute_visible(pk) ==
  LET q == trim(pk.query)
      vis == IF q = <<>>
             THEN [i \in 1..Len(pk.items) |->
                     [item_idx |-> i - 1, score |-> 0, match_indices |-> <<>>]]
             ELSE SortVisible(pk.items, MatchingRows(pk.items, q, 1))
  IN [pk EXCEPT !.visible = vis,
                !.table_sel = IF q # <<>> /\ @ # NoneIdx /\ @ >= Len(vis)
                              THEN (IF vis = <<>> THEN NoneIdx ELSE Len(vis) - 1)
                              ELSE @]

\* reload_items, items.sort_by on the labels in lower case (stable)
RECURSIVE InsertItem(_, _)
InsertItem(x, sorted) ==
  IF sorted = <<>> THEN <<x>>
  ELSE IF StrLess(to_lowercase(x), to_lowercase(Head(sorted))) THEN <<x>> \o sorted
  ELSE <<Head(sorted)>> \o InsertItem(x, Tail(sorted))
RECURSIVE SortItems(_)
SortItems(items) ==
  IF items = <<>> THEN <<>>
  ELSE InsertItem(items[Len(items)], SortItems(SubSeq(items, 1, Len(items) - 1)))

\* FilePicker::reload_items on the picker: the entries read are sorted, the
\* visible rows recomputed, the first row focused and made the anchor
picker_reload_items(pk, entries) ==
  LET p == recompute_visible([pk EXCEPT !.items = SortItems(entries)])
  IN IF p.visible = <<>>
     THEN [p EXCEPT !.table_sel = NoneIdx, !.anchor = NoneIdx]
     ELSE [p EXCEPT !.table_sel = 0, !.anchor = 0]

\* FilePicker::open
picker_open(pk, entries) ==
  picker_reload_items([pk EXCEPT !.open = TRUE, !.query = <<>>,
                                 !.sel = {}, !.anchor = NoneIdx], entries)

\* FilePicker::new; an item stands for its path and its label
PickerNew ==
  [open |-> FALSE, items |-> <<>>, query |-> <<>>, visible |-> <<>>,
   table_sel |-> 0, sel |-> {}, anchor |-> NoneIdx]

\* FilePicker::reload_items: the rows are replaced, the selected paths stay
reload_items(f, keys) ==
  IF keys = <<>>
  THEN set_anchor([f EXCEPT !.entries = keys], NoneIdx)
  ELSE set_anchor([f EXCEPT !.entries = keys], 0)

\* (u64, String, Result<Value, String>); job is the sender (history)
InfoMsg(req_id, path, ok, val, job) ==
  [req_id |-> req_id, path |-> path, ok |-> ok, val |-> val, job |-> job]

\* (u64, VerifyMsg); job is the sender (history)
VerifyMsg(req_id, kind, done, total, value, message, job) ==
  [req_id |-> req_id, kind |-> kind, done |-> done, total |-> total,
   value |-> value, message |-> message, job |-> job]

NoValue == [summary |-> [ok |-> 0, failed |-> 0, total |-> 0], results |-> <<>>]

\* poll_async: one message of info_rx
InfoApply(f, m) ==
  IF m.req_id # f.info_req_id THEN f
  ELSE IF f.focused_path # Some(m.path) THEN f
  ELSE IF m.ok
  THEN [f EXCEPT !.last_info = Some(m.val), !.last_error = None,
                 !.applied_info = @ \cup {m.job}]
  ELSE [f EXCEPT !.last_error = Some(m.val), !.applied_info = @ \cup {m.job}]

\* poll_async: one message of verify_rx
VerifyApply(f, m) ==
  IF m.req_id # f.verify_req_id THEN f
  ELSE IF m.kind = "Progress"
  THEN [f EXCEPT !.verify_progress = Some(<<m.done, m.total>>),
                 !.applied_verify = @ \cup {m.job}]
  ELSE IF m.kind = "Done"
  THEN [f EXCEPT !.verify_progress = None, !.last_verify = Some(m.value),
                 !.last_error = None, !.applied_verify = @ \cup {m.job}]
  ELSE [f EXCEPT !.verify_progress = None, !.last_error = Some(m.message),
                 !.applied_verify = @ \cup {m.job}]

RECURSIVE InfoPollFold(_, _)
InfoPollFold(f, q) ==
  IF q = <<>> THEN f ELSE InfoPollFold(InfoApply(f, Head(q)), Tail(q))

RECURSIVE VerifyPollFold(_, _)
VerifyPollFold(f, q) ==
  IF q = <<>> THEN f ELSE VerifyPollFold(VerifyApply(f, Head(q)), Tail(q))

\* FilesTab::poll_async: drain info_rx, then verify_rx; applied_info and
\* applied_verify are the jobs whose messages this call applied (history)
FilesPoll(f) ==
  LET f0 == [f EXCEPT !.applied_info = {}, !.applied_verify = {}]
      f1 == [InfoPollFold(f0, f0.info_q) EXCEPT !.info_q = <<>>]
  IN [VerifyPollFold(f1, f1.verify_q) EXCEPT !.verify_q = <<>>]

\* -------------------------------------------------- FilesTab: operations
\* verify_selected / remove_selected: the selected paths in the order of the
\* BTreeSet, or the focused path when nothing is selected
TargetPaths(f) ==
  IF f.sel # {} THEN InOrder(PathOrder, f.sel)
  ELSE IF selected_path(f) = None THEN <<>>
  ELSE <<selected_path(f)[1]>>

\* What a verify thread has done so far, in order (history): the messages it
\* passed to tx.send, by kind and, for Progress, done; and, as kind "Call",
\* the files.verify requests it wrote, with the index of the path
Published(kind, done) == [kind |-> kind, done |-> done]

\* The thread verify_selected spawns: the captured paths, req_id and tx, the
\* loop index i, the counters and the results so far; lost: the connection
\* of the thread is broken; answers: what each call returned (history);
\* late: the requests written after a newer dispatch had replaced the channel
\* (history)
VerifyJob(paths, req_id, chan) ==
  [paths |-> paths, req_id |-> req_id, chan |-> chan, pc |-> "connect", i |-> 0,
   ok_count |-> 0, fail_count |-> 0, results |-> <<>>, lost |-> FALSE,
   sent |-> "none", dropped |-> FALSE, pub |-> <<>>, answers |-> <<>>, late |-> 0]

\* (a verify dispatch that takes the channel and the counter of the info class)
VerifyDispatchOnInfoChannel(f, paths, fresh) ==
  LET c == NewChannel(f.info_rx, f.info_req_id, fresh + MaxJobs) IN
  [f EXCEPT !.verify_rx = c.rx,
            !.verify_q = <<>>,
            !.verify_req_id = c.req_id,
            !.info_rx = c.rx,
            !.info_q = <<>>,
            !.info_req_id = c.req_id,
            !.verify_progress = Some(<<0, Len(paths)>>),
            !.last_error = None]

\* verify_selected up to thread::spawn
VerifyDispatch(f, paths, fresh) ==
  LET c == NewChannel(f.verify_rx, f.verify_req_id, fresh) IN
  [f EXCEPT !.verify_rx = c.rx,
            !.verify_q = IF c.rx = f.verify_rx THEN @ ELSE <<>>,
            !.verify_req_id = c.req_id,
            !.verify_progress = Some(<<0, Len(paths)>>),
            !.last_error = None]

\* (a verify_selected that stops the threads of the batches before)
VerifySelectedCancelling ==
  /\ ui_pc = "input"
  /\ app.active_tab = "Files"
  /\ Spawned < MaxJobs
  /\ IF TargetPaths(files) = <<>>
     THEN UNCHANGED <<files, vjobs>>
     ELSE LET f2 == VerifyDispatch(files, TargetPaths(files), Len(vjobs) + 1) IN
          /\ files' = f2
          /\ vjobs' = Append([k \in 1..Len(vjobs) |-> [vjobs[k] EXCEPT !.pc = "done"]],
               VerifyJob(TargetPaths(files), f2.verify_req_id, f2.verify_rx))
  /\ ui_pc' = "poll"
  /\ UNCHANGED <<app, ijobs, envVars, rpcVars, evtVars, netVars>>

\* FilesTab::verify_selected
VerifySelected ==
  /\ ui_pc = "input"
  /\ app.active_tab = "Files"
  /\ Spawned < MaxJobs
  /\ IF TargetPaths(files) = <<>>
     THEN UNCHANGED <<files, vjobs>>
     ELSE LET f2 == VerifyDispatch(files, TargetPaths(files), Len(vjobs) + 1) IN
          /\ files' = f2
          /\ vjobs' = Append(vjobs,
               VerifyJob(TargetPaths(files), f2.verify_req_id, f2.verify_rx))
  /\ ui_pc' = "poll"
  /\ UNCHANGED <<app, ijobs, envVars, rpcVars, evtVars, netVars>>

\* tx.send((req_id, msg)) in the verify thread: the messages reach the tab
\* only while the tab still holds the receiver of this channel.
VSend(f, j, msgs) ==
  IF f.verify_rx = j.chan THEN [f EXCEPT !.verify_q = @ \o msgs] ELSE f

\* The verify thread: IpcClient::connect(endpoint); a failure ends the thread
\* with VerifyMsg::Error
VConnect ==
  \E i \in 1..Len(vjobs) :
    /\ vjobs[i].pc = "connect"
    /\ \/ /\ vjobs' = [vjobs EXCEPT ![i].pc = "progress"]
          /\ UNCHANGED files
       \/ /\ vjobs' = [vjobs EXCEPT ![i].pc = "done", ![i].sent = "Error",
                                    ![i].dropped = (files.verify_rx # vjobs[i].chan),
                                    ![i].pub = Append(@, Published("Error", 0))]
          /\ files' = VSend(files, vjobs[i],
               <<VerifyMsg(vjobs[i].req_id, "Error", 0, 0, NoValue, "connect IPC", i)>>)
    /\ UNCHANGED <<ijobs, envVars, uiVars, rpcVars, evtVars, netVars>>

\* (a thread that reports progress only before its first call)
VProgressOnceOnly ==
  \E i \in 1..Len(vjobs) :
    /\ vjobs[i].pc = "progress"
    /\ IF vjobs[i].i = 0
       THEN /\ vjobs' = [vjobs EXCEPT ![i].pc = "call",
                                       ![i].pub = Append(@, Published("Progress", 0))]
            /\ files' = VSend(files, vjobs[i],
                 <<VerifyMsg(vjobs[i].req_id, "Progress", 0, Len(vjobs[i].paths),
                             NoValue, "", i)>>)
       ELSE /\ vjobs' = [vjobs EXCEPT ![i].pc = "call"]
            /\ UNCHANGED files
    /\ UNCHANGED <<ijobs, envVars, uiVars, rpcVars, evtVars, netVars>>

\* The verify thread: the Progress {done: i, total} sent before each call
VProgress ==
  \E i \in 1..Len(vjobs) :
    /\ vjobs[i].pc = "progress"
    /\ vjobs' = [vjobs EXCEPT ![i].pc = "call",
                                ![i].pub = Append(@, Published("Progress", vjobs[i].i))]
    /\ files' = VSend(files, vjobs[i],
         <<VerifyMsg(vjobs[i].req_id, "Progress", vjobs[i].i, Len(vjobs[i].paths),
                     NoValue, "", i)>>)
    /\ UNCHANGED <<ijobs, envVars, uiVars, rpcVars, evtVars, netVars>>

\* What files.verify may return: a result with valid true, valid false or no
\* boolean valid, a daemon error, or a lost connection
VerifyOutcomes == {"valid", "invalid", "novalid", "err", "lost"}

\* (a loop body that counts a failed call and records nothing for it)
VerifyItemUnrecorded(j, r) ==
  [j EXCEPT !.ok_count = IF r = "valid" THEN @ + 1 ELSE @,
            !.fail_count = IF r \in {"invalid", "err", "lost"} THEN @ + 1 ELSE @,
            !.results = IF r \in {"err", "lost"} THEN @
                        ELSE Append(@, [path |-> j.paths[j.i + 1], kind |-> "result",
                                        result |-> r]),
            !.lost = (r = "lost"),
            !.i = @ + 1]

\* The match on the result of c.rpc("files.verify", ..) for paths[i]
VerifyItem(j, r) ==
  [j EXCEPT !.ok_count = IF r = "valid" THEN @ + 1 ELSE @,
            !.fail_count = IF r \in {"invalid", "err", "lost"} THEN @ + 1 ELSE @,
            !.results = Append(@,
               [path |-> j.paths[j.i + 1],
                kind |-> IF r \in {"err", "lost"} THEN "error" ELSE "result",
                result |-> r]),
            !.lost = (r = "lost"),
            !.i = @ + 1]

\* (a summary that counts only the calls that returned a result)
VerifyValueOfResultsOnly(j) ==
  LET bad == Cardinality({k \in 1..Len(j.results) : j.results[k].result = "invalid"}) IN
  [summary |-> [ok |-> j.ok_count, failed |-> bad, total |-> j.ok_count + bad],
   results |-> j.results]

\* The value the thread returns after the loop
VerifyValue(j) ==
  [summary |-> [ok |-> j.ok_count, failed |-> j.fail_count,
                total |-> j.ok_count + j.fail_count],
   results |-> j.results]

\* The verify thread: c.rpc("files.verify", {"path": path}) for paths[i] and,
\* after the last path, Progress {done: total, total} and Done {value}
VCall ==
  \E i \in 1..Len(vjobs), r \in VerifyOutcomes :
    /\ vjobs[i].pc = "call"
    /\ vjobs[i].lost => r = "lost"
    /\ LET j1 == [vjobs[i] EXCEPT !.pub = Append(@, Published("Call", vjobs[i].i)),
                                  !.answers = Append(@, r),
                                  !.late = IF files.verify_rx # vjobs[i].chan
                                           THEN @ + 1 ELSE @]
           j2 == VerifyItem(j1, r) IN
       IF j2.i < Len(j2.paths)
       THEN /\ vjobs' = [vjobs EXCEPT ![i] = [j2 EXCEPT !.pc = "progress"]]
            /\ UNCHANGED files
       ELSE /\ vjobs' = [vjobs EXCEPT ![i] =
                 [j2 EXCEPT !.pc = "done", !.sent = "Done",
                            !.pub = @ \o <<Published("Progress", Len(j2.paths)),
                                           Published("Done", 0)>>,
                            !.dropped = (files.verify_rx # j2.chan)]]
            /\ files' = VSend(files, j2,
                 <<VerifyMsg(j2.req_id, "Progress", Len(j2.paths), Len(j2.paths),
                             NoValue, "", i),
                   VerifyMsg(j2.req_id, "Done", 0, 0, VerifyValue(j2), "", i)>>)
    /\ UNCHANGED <<ijobs, envVars, uiVars, rpcVars, evtVars, netVars>>

\* The info thread: connect, c.rpc("files.info", {"path": p}) and the send of
\* (req_id, p, res)
IRun ==
  \E i \in 1..Len(ijobs), o \in Outcomes :
    /\ ijobs[i].pc = "call"
    /\ ijobs' = [ijobs EXCEPT ![i].pc = "done",
                              ![i].dropped = (files.info_rx # ijobs[i].chan)]
    /\ files' = IF files.info_rx = ijobs[i].chan
                THEN [files EXCEPT !.info_q = Append(@,
                        InfoMsg(ijobs[i].req_id, ijobs[i].path, o = "ok",
                                IF o = "ok" THEN ijobs[i].path ELSE ErrMsg(o), i))]
                ELSE files
    /\ UNCHANGED <<vjobs, envVars, uiVars, rpcVars, evtVars, netVars>>

\* FilesTab::new
FilesNew ==
  [entries |-> <<>>, selected |-> 0, sel |-> {}, anchor |-> NoneIdx,
   picker |-> PickerNew,
   info_rx |-> 0, info_q |-> <<>>, info_req_id |-> 0,
   verify_rx |-> 0, verify_q |-> <<>>, verify_req_id |-> 0,
   verify_progress |-> None, focused_path |-> None,
   last_error |-> None, last_info |-> None, last_verify |-> None,
   applied_info |-> {}, applied_verify |-> {}]

FilesInit ==
  /\ files = FilesNew
  /\ vjobs = <<>>
  /\ ijobs = <<>>

\* ------------------------------------------------------------------ main
\* App::push_log
LogsMax == 5000

\* (a buffer that keeps every entry)
push_log_keeping_all(logs, entry) == Append(logs, entry)

\* while self.logs.len() > self.logs_max { self.logs.pop_front(); }
RECURSIVE pop_front_while_over(_)
pop_front_while_over(logs) ==
  IF Len(logs) > LogsMax THEN pop_front_while_over(Tail(logs)) ELSE logs

push_log(logs, entry) == pop_front_while_over(Append(logs, entry))

\* App::on_daemon_event
on_daemon_event(a, e) ==
  IF e.kind = "Log" THEN [a EXCEPT !.logs = push_log(@, e.log)]
  ELSE IF e.kind = "Network" /\ e.sub = "Stats" THEN [a EXCEPT !.stats_json = Some(e.data)]
  ELSE a

\* main before its loop: NetworkTab::refresh and FilesTab::refresh on the
\* primary connection (what App::refresh_basics stores is not modelled)
Startup ==
  /\ ui_pc = "start"
  /\ \E o1 \in Outcomes, o2 \in Outcomes :
       LET r == FilesRefresh(files, o2, daemon, Len(ijobs) + 1) IN
       /\ net' = NetRefresh(net, o1, daemon)
       /\ files' = r.tab
       /\ ijobs' = ijobs \o r.jobs
  /\ ui_pc' = "poll"
  /\ UNCHANGED <<app, daemon, jl_jobs, vjobs, rpcVars, evtVars>>

\* The loop of main: files_tab.poll_async(); network_tab.poll_async()
PollAsync ==
  /\ ui_pc = "poll"
  /\ files' = FilesPoll(files)
  /\ net' = NetPoll(net)
  /\ ui_pc' = "drain"
  /\ UNCHANGED <<app, jl_jobs, vjobs, ijobs, envVars, rpcVars, evtVars>>

\* (a channel that hands out its newest message first)
TryRecvNewest(q) == [evt |-> q[Len(q)], rest |-> SubSeq(q, 1, Len(q) - 1)]

\* evt_rx.try_recv() on a non-empty channel: the oldest message and what stays
TryRecv(q) == [evt |-> Head(q), rest |-> Tail(q)]

\* The loop of main: one pass of `while let Ok(evt) = evt_rx.try_recv()`
HandleEvent ==
  /\ ui_pc = "drain"
  /\ evt_q # <<>>
  /\ evt_q' = TryRecv(evt_q).rest
  /\ delivered' = Append(delivered, TryRecv(evt_q).evt)
  /\ app' = on_daemon_event(app, TryRecv(evt_q).evt)
  /\ IF TryRecv(evt_q).evt.kind = "State"
     THEN \E o1 \in Outcomes, o2 \in Outcomes :
            LET r == FilesRefresh(files, o2, daemon, Len(ijobs) + 1) IN
            /\ net' = NetRefresh(net, o1, daemon)
            /\ files' = r.tab
            /\ ijobs' = ijobs \o r.jobs
     ELSE UNCHANGED <<net, files, ijobs>>
  /\ Len(jl_jobs) + Len(vjobs) + Len(ijobs') <= MaxJobs
  /\ UNCHANGED <<ui_pc, daemon, jl_jobs, vjobs, evt_pc, wire_log, rpcVars>>

\* The loop of main: try_recv() finds the channel empty; the frame is drawn
DrainDone ==
  /\ ui_pc = "drain"
  /\ evt_q = <<>>
  /\ ui_pc' = "input"
  /\ UNCHANGED <<app, envVars, rpcVars, evtVars, netVars, filesVars>>

\* The loop of main: event::poll(tick_rate) times out
NoInput ==
  /\ ui_pc = "input"
  /\ ui_pc' = IF app.should_quit THEN "quit" ELSE "poll"
  /\ UNCHANGED <<app, envVars, rpcVars, evtVars, netVars, filesVars>>

\* A digit key or a click on the tab bar: App::set_active_tab
SwitchTab ==
  /\ ui_pc = "input"
  /\ \E t \in {"Network", "Files"} :
       /\ t # app.active_tab
       /\ app' = [app EXCEPT !.active_tab = t]
  /\ ui_pc' = "poll"
  /\ UNCHANGED <<envVars, rpcVars, evtVars, netVars, filesVars>>

\* 'r' on the Network tab: UiCommand::Refresh, network_tab.refresh(&mut ipc)
NetRefreshKey ==
  /\ ui_pc = "input"
  /\ app.active_tab = "Network"
  /\ \E o \in Outcomes : net' = NetRefresh(net, o, daemon)
  /\ ui_pc' = "poll"
  /\ UNCHANGED <<app, daemon, jl_jobs, rpcVars, evtVars, filesVars>>

\* 'r' on the Network tab, step by step: main calls network_tab.refresh(ipc),
\* which calls ipc.rpc("network.overview") on the UI thread: rpc() takes the
\* id and writes the request, ...
RefreshCall ==
  /\ ui_pc = "input"
  /\ app.active_tab = "Network"
  /\ rpc_pc = "idle"
  /\ next_id <= MaxCalls
  /\ rpc_id' = next_id
  /\ next_id' = next_id + 1
  /\ rpc_buf' = NoLine
  /\ rpc_nread' = 0
  /\ rpc_skip' = NoLine
  /\ rpc_sent' = Append(rpc_sent, JStr(Digits(next_id)))
  /\ \/ /\ rpc_pc' = "reading"
        /\ rpc_ret' = RetNone
     \/ /\ rpc_eof
        /\ rpc_pc' = "idle"
        /\ rpc_ret' = RetErr("io error")
  /\ ui_pc' = "rpc"
  /\ UNCHANGED <<app, rpc_eof, evtVars, envVars, netVars, filesVars>>

\* ... the UI thread sits in read_line until a line arrives (RpcReadLine), and
\* once rpc() has returned refresh takes the result and main goes on.
RefreshReturn ==
  /\ ui_pc = "rpc"
  /\ rpc_pc = "idle"
  /\ net' = NetRefresh(net, IF rpc_ret.ok THEN "ok" ELSE "err", daemon)
  /\ ui_pc' = "poll"
  /\ UNCHANGED <<app, daemon, jl_jobs, rpcVars, evtVars, filesVars>>

\* 'j' / 'k' on the Network tab (d = 1 / d = -1)
NetNav ==
  /\ ui_pc = "input"
  /\ app.active_tab = "Network"
  /\ \E d \in {-1, 1} :
       LET next == IF net.selected = NoneIdx THEN 0
                   ELSE IF d = 1
                   THEN (IF net.selected + 1 < Len(net.topics) - 1
                         THEN net.selected + 1
                         ELSE (IF Len(net.topics) = 0 THEN 0 ELSE Len(net.topics) - 1))
                   ELSE (IF net.selected = 0 THEN 0 ELSE net.selected - 1)
       IN net' = IF net.topics # <<>> THEN [net EXCEPT !.selected = next] ELSE net
  /\ ui_pc' = "poll"
  /\ UNCHANGED <<app, jl_jobs, envVars, rpcVars, evtVars, filesVars>>

\* NetworkTab::remove_selected: rpc("topic.rm") and, if it succeeds, refresh
NetRemoveSelected ==
  /\ ui_pc = "input"
  /\ app.active_tab = "Network"
  /\ IF selected_topic_name(net) = None
     THEN UNCHANGED <<net, daemon>>
     ELSE \E o1 \in Outcomes, o2 \in Outcomes :
            LET name == selected_topic_name(net)[1]
                a1 == Answer(o1, name \in daemon.topics)
                d2 == IF a1 = "ok" THEN DRemove(daemon, name) ELSE daemon
            IN /\ daemon' = d2
               /\ net' = IF a1 = "ok"
                         THEN NetRefresh([net EXCEPT !.last_error = None], o2, d2)
                         ELSE [net EXCEPT !.last_error = Some(ErrMsg(a1))]
  /\ ui_pc' = "poll"
  /\ UNCHANGED <<app, jl_jobs, rpcVars, evtVars, filesVars>>

\* 'r' on the Files tab: UiCommand::Refresh, files_tab.refresh(&mut ipc)
FilesRefreshKey ==
  /\ ui_pc = "input"
  /\ app.active_tab = "Files"
  /\ \E o \in Outcomes :
       LET r == FilesRefresh(files, o, daemon, Len(ijobs) + 1) IN
       /\ files' = r.tab
       /\ ijobs' = ijobs \o r.jobs
  /\ Len(jl_jobs) + Len(vjobs) + Len(ijobs') <= MaxJobs
  /\ ui_pc' = "poll"
  /\ UNCHANGED <<app, daemon, vjobs, rpcVars, evtVars, netVars>>

\* 'j' / 'k' on the Files tab (d = 1 / d = -1): set_focus(Some(next))
FilesNav ==
  /\ ui_pc = "input"
  /\ app.active_tab = "Files"
  /\ \E d \in {-1, 1} :
       LET next == IF files.selected = NoneIdx THEN 0
                   ELSE IF d = 1
                   THEN (IF files.selected + 1 < Len(files.entries) - 1
                         THEN files.selected + 1
                         ELSE (IF Len(files.entries) = 0 THEN 0
                               ELSE Len(files.entries) - 1))
                   ELSE (IF files.selected = 0 THEN 0 ELSE files.selected - 1)
           r == set_focus(files, next, Len(ijobs) + 1)
       IN IF files.entries # <<>>
          THEN files' = r.tab /\ ijobs' = ijobs \o r.jobs
          ELSE UNCHANGED <<files, ijobs>>
  /\ Len(jl_jobs) + Len(vjobs) + Len(ijobs') <= MaxJobs
  /\ ui_pc' = "poll"
  /\ UNCHANGED <<app, vjobs, envVars, rpcVars, evtVars, netVars>>

\* Tab / Space on the Files tab: toggle_selected_current
ToggleSelectedCurrent ==
  /\ ui_pc = "input"
  /\ app.active_tab = "Files"
  /\ files' = IF selected_path(files) = None THEN files
              ELSE toggle(files, selected_path(files)[1], files.selected)
  /\ ui_pc' = "poll"
  /\ UNCHANGED <<app, vjobs, ijobs, envVars, rpcVars, evtVars, netVars>>

\* FilesTab::select_all (keys A and Ctrl-a): MultiSelectState::select_all
select_all(f) ==
  [f EXCEPT !.sel = {f.entries[k] : k \in 1..Len(f.entries)}]

SelectAll ==
  /\ ui_pc = "input"
  /\ app.active_tab = "Files"
  /\ files' = select_all(files)
  /\ ui_pc' = "poll"
  /\ UNCHANGED <<app, vjobs, ijobs, envVars, rpcVars, evtVars, netVars>>

\* 'i' on the Files tab: FilesTab::invert_selection
InvertSelection ==
  /\ ui_pc = "input"
  /\ app.active_tab = "Files"
  /\ files' = invert(files, files.entries)
  /\ ui_pc' = "poll"
  /\ UNCHANGED <<app, vjobs, ijobs, envVars, rpcVars, evtVars, netVars>>

\* 'c' on the Files tab: FilesTab::clear_selection
ClearSelection ==
  /\ ui_pc = "input"
  /\ app.active_tab = "Files"
  /\ files' = clear(files)
  /\ ui_pc' = "poll"
  /\ UNCHANGED <<app, vjobs, ijobs, envVars, rpcVars, evtVars, netVars>>

\* FilesTab::on_mouse, a left click with Shift on the row idx of the list:
\* the row is focused, select_range_to(idx), request_focused_info_if_needed
ShiftClick ==
  /\ ui_pc = "input"
  /\ app.active_tab = "Files"
  /\ \E idx \in 0..(Len(files.entries) - 1) :
       LET r == RequestInfo(range_select([files EXCEPT !.selected = idx],
                                         files.entries, idx),
                            Len(ijobs) + 1)
       IN files' = r.tab /\ ijobs' = ijobs \o r.jobs
  /\ Len(jl_jobs) + Len(vjobs) + Len(ijobs') <= MaxJobs
  /\ ui_pc' = "poll"
  /\ UNCHANGED <<app, vjobs, envVars, rpcVars, evtVars, netVars>>

\* FilesTab::remove_selected: rpc("files.remove") for each path until one
\* fails (k: the calls that succeed), then refresh if none failed
FilesRemoveSelected ==
  /\ ui_pc = "input"
  /\ app.active_tab = "Files"
  /\ IF TargetPaths(files) = <<>>
     THEN UNCHANGED <<files, ijobs, daemon>>
     ELSE \E k \in 0..Len(TargetPaths(files)), o2 \in Outcomes :
            LET paths == TargetPaths(files)
                d2 == [daemon EXCEPT !.files = @ \ {paths[x] : x \in 1..k}]
                r == FilesRefresh([files EXCEPT !.last_error = None], o2, d2,
                                  Len(ijobs) + 1)
            IN /\ daemon' = d2
               /\ IF k = Len(paths)
                  THEN files' = r.tab /\ ijobs' = ijobs \o r.jobs
                  ELSE /\ files' = [files EXCEPT !.last_error = Some(ErrMsg("err"))]
                       /\ UNCHANGED ijobs
  /\ Len(jl_jobs) + Len(vjobs) + Len(ijobs') <= MaxJobs
  /\ ui_pc' = "poll"
  /\ UNCHANGED <<app, vjobs, rpcVars, evtVars, netVars>>

\* App::new, and the daemon as main finds it
MainInit ==
  /\ ui_pc = "start"
  /\ app = [should_quit |-> FALSE, active_tab |-> "Network",
            logs |-> <<>>, stats_json |-> None]
  /\ daemon = [topics |-> Topics, joined |-> {}, files |-> Paths, ver |-> 0]

RpcInit ==
  /\ next_id = 1
  /\ rpc_pc = "idle"
  /\ rpc_id = 0
  /\ rpc_buf = NoLine
  /\ rpc_nread = 0
  /\ rpc_skip = NoLine
  /\ rpc_sent = <<>>
  /\ rpc_ret = RetNone
  /\ rpc_eof = FALSE

Init == RpcInit /\ EvtInit /\ MainInit /\ NetInit /\ FilesInit

RpcNext == RpcCall \/ RpcReadLine

\* One RpcClient and the frames it reads
SpecRpc == Init /\ [][RpcNext]_vars

EvtNext == EvtConnect \/ EvtReadLine

FilesNext ==
  \/ VerifySelected \/ FilesRefreshKey \/ FilesNav \/ ToggleSelectedCurrent
  \/ VConnect \/ VProgress \/ VCall \/ IRun

\* The dispatches of the three job classes, the refreshes and the threads
TabsNext ==
  \/ JoinSelected \/ LeaveSelected \/ NetRefreshKey
  \/ JLConnect \/ JLCall \/ JLOverview
  \/ VerifySelected \/ FilesRefreshKey \/ FilesNav \/ VConnect \/ VProgress \/ VCall
  \/ IRun

\* The loop of main while no event is queued
LoopNext == Startup \/ PollAsync \/ DrainDone \/ NoInput

\* The event thread and the loop of main that drains its channel
SpecEvt == Init /\ [][LoopNext \/ HandleEvent \/ EvtNext]_vars

\* The Files tab once the user has switched to it
SpecFiles == Init /\ [][LoopNext \/ SwitchTab \/ FilesNext]_vars

\* One verify batch from its dispatch on: the Files tab is shown, the daemon
\* tracks BatchPaths, the list is loaded, any non-empty selection was made
\* and verify_selected has just returned.
BatchInit ==
  /\ RpcInit /\ EvtInit
  /\ ui_pc = "poll"
  /\ app = [should_quit |-> FALSE, active_tab |-> "Files",
            logs |-> <<>>, stats_json |-> None]
  /\ jl_jobs = <<>>
  /\ \E picked \in SUBSET BatchPaths \ {{}} :
       LET d == [topics |-> Topics, joined |-> {}, files |-> BatchPaths, ver |-> 0]
           r == FilesRefresh(FilesNew, "ok", d, 1)
           f1 == [r.tab EXCEPT !.sel = picked]
           f2 == VerifyDispatch(f1, TargetPaths(f1), 1)
       IN /\ daemon = d
          /\ net = NetRefresh(NetNew, "ok", d)
          /\ files = f2
          /\ ijobs = r.jobs
          /\ vjobs = <<VerifyJob(TargetPaths(f1), f2.verify_req_id, f2.verify_rx)>>

\* The join / leave jobs alone; the threads get their turn and the daemon
\* answers every request or closes the connection.
JLNext == JoinSelected \/ LeaveSelected \/ JLConnect \/ JLCall \/ JLOverview
SpecJobs == Init /\ [][LoopNext \/ JLNext \/ IRun]_vars
FairSpecJobs ==
  SpecJobs /\ WF_vars(JLConnect) /\ WF_vars(JLCall) /\ WF_vars(JLOverview)

\* The RpcClient of the UI thread next to one thread of each class: the lists
\* are loaded, a join and a verify of the focused rows were dispatched and
\* the file info of the focused row was requested.
ConnInit ==
  /\ RpcInit /\ EvtInit
  /\ ui_pc = "poll"
  /\ app = [should_quit |-> FALSE, active_tab |-> "Files",
            logs |-> <<>>, stats_json |-> None]
  /\ LET d == [topics |-> Topics, joined |-> {}, files |-> Paths, ver |-> 0]
         n1 == NetRefresh(NetNew, "ok", d)
         name == selected_topic_name(n1)[1]
         n2 == NetDispatch(n1, "join", name, 1)
         r == FilesRefresh(FilesNew, "ok", d, 1)
         f2 == VerifyDispatch(r.tab, TargetPaths(r.tab), 1)
     IN /\ daemon = d
        /\ net = n2
        /\ jl_jobs = <<JoinLeaveJob("join", name, n2.join_leave_req_id, n2.join_leave_rx)>>
        /\ files = f2
        /\ ijobs = r.jobs
        /\ vjobs = <<VerifyJob(TargetPaths(r.tab), f2.verify_req_id, f2.verify_rx)>>

ThreadNext ==
  JLConnect \/ JLCall \/ JLOverview \/ VConnect \/ VProgress \/ VCall \/ IRun
SpecConn == ConnInit /\ [][RpcNext \/ ThreadNext]_vars

\* The loop of main with the refresh call of the UI thread step by step. The
\* UI thread takes every step it can take; event::poll returns at the latest
\* when tick_rate is over. Nothing makes the daemon send a line.
WaitNext ==
  Startup \/ PollAsync \/ DrainDone \/ NoInput \/ RefreshCall \/ RpcReadLine \/ RefreshReturn
SpecWait == Init /\ [][WaitNext]_vars
FairSpecWait ==
  /\ SpecWait
  /\ WF_vars(Startup) /\ WF_vars(PollAsync) /\ WF_vars(DrainDone)
  /\ WF_vars(NoInput \/ RefreshCall) /\ WF_vars(RefreshReturn)

\* The refreshes of both tabs with a selection and jobs in flight
RefreshNext ==
  \/ NetRefreshKey \/ FilesRefreshKey \/ ToggleSelectedCurrent
  \/ JoinSelected \/ VerifySelected
  \/ JLConnect \/ JLCall \/ JLOverview \/ VConnect \/ VProgress \/ VCall
SpecRefresh == Init /\ [][LoopNext \/ SwitchTab \/ RefreshNext]_vars

\* MultiSelectState by itself: the calls of its methods on the selection of a
\* list whose ordered keys are entries, with every index a caller may pass,
\* and the reloads of the list
KeyOrder == <<"a", "b", "c", "d", "e">>
KeyLists == {<<>>, KeyOrder, <<"a", "c", "e">>, <<"b", "c", "d">>}
Indices == 0..(Len(KeyOrder) - 1)

MsToggle ==
  /\ \E idx \in Indices :
       /\ idx < Len(files.entries)
       /\ files' = toggle(files, files.entries[idx + 1], idx)
  /\ UNCHANGED <<vjobs, ijobs, envVars, uiVars, rpcVars, evtVars, netVars>>

MsRangeSelect ==
  /\ \E target_idx \in Indices : files' = range_select(files, files.entries, target_idx)
  /\ UNCHANGED <<vjobs, ijobs, envVars, uiVars, rpcVars, evtVars, netVars>>

MsSelectAll ==
  /\ files' = select_all(files)
  /\ UNCHANGED <<vjobs, ijobs, envVars, uiVars, rpcVars, evtVars, netVars>>

MsInvert ==
  /\ files' = invert(files, files.entries)
  /\ UNCHANGED <<vjobs, ijobs, envVars, uiVars, rpcVars, evtVars, netVars>>

MsClear ==
  /\ files' = clear(files)
  /\ UNCHANGED <<vjobs, ijobs, envVars, uiVars, rpcVars, evtVars, netVars>>

\* FilePicker::move_selection, FilesTab::set_focus: the anchor follows the row
MsSetAnchor ==
  /\ \E idx \in Indices :
       /\ idx < Len(files.entries)
       /\ files' = set_anchor(files, idx)
  /\ UNCHANGED <<vjobs, ijobs, envVars, uiVars, rpcVars, evtVars, netVars>>

\* FilePicker::go_up, entering a directory: another directory is listed
MsReloadItems ==
  /\ \E keys \in KeyLists : files' = reload_items(files, keys)
  /\ UNCHANGED <<vjobs, ijobs, envVars, uiVars, rpcVars, evtVars, netVars>>

\* The list is loaded anew and the selection retained against its keys
MsRetainExisting ==
  /\ \E keys \in KeyLists :
       files' = [files EXCEPT !.entries = keys,
                              !.sel = retain_existing(@, KeysAt(keys, 0, Len(keys)))]
  /\ UNCHANGED <<vjobs, ijobs, envVars, uiVars, rpcVars, evtVars, netVars>>

\* The list shown changes and the selection is left alone (a filter)
MsSetKeys ==
  /\ \E keys \in KeyLists : files' = [files EXCEPT !.entries = keys]
  /\ UNCHANGED <<vjobs, ijobs, envVars, uiVars, rpcVars, evtVars, netVars>>

\* The labels a directory entry can have, and the queries that can be typed
RECURSIVE SeqsUpTo(_, _)
SeqsUpTo(S, n) ==
  IF n = 0 THEN {<<>>}
  ELSE LET shorter == SeqsUpTo(S, n - 1)
       IN shorter \cup {Append(x, c) : x \in shorter, c \in S}
Labels == SeqsUpTo(Chars, MaxLabel)

\* FilesTab::add_open, FilePicker::open: the query is cleared and the
\* directory, which holds one entry, is listed
PickerOpen ==
  /\ ~files.picker.open
  /\ \E label \in Labels :
       files' = [files EXCEPT !.picker = picker_open(@, <<label>>)]
  /\ UNCHANGED <<vjobs, ijobs, envVars, uiVars, rpcVars, evtVars, netVars>>

\* KeyCode::Char(c) with the focus on the search line
PickerPush ==
  /\ files.picker.open
  /\ Len(files.picker.query) < MaxQuery
  /\ \E c \in Chars :
       files' = [files EXCEPT !.picker =
                   recompute_visible([@ EXCEPT !.query = Append(@, c)])]
  /\ UNCHANGED <<vjobs, ijobs, envVars, uiVars, rpcVars, evtVars, netVars>>

\* KeyCode::Backspace with the focus on the search line: query.pop()
PickerPop ==
  /\ files.picker.open
  /\ files' = [files EXCEPT !.picker =
                 recompute_visible([@ EXCEPT !.query =
                   IF @ = <<>> THEN @ ELSE SubSeq(@, 1, Len(@) - 1)])]
  /\ UNCHANGED <<vjobs, ijobs, envVars, uiVars, rpcVars, evtVars, netVars>>

\* KeyCode::Esc: a query that is not empty is cleared; with an empty query
\* the picker is cancelled (FilesTab::add_cancel, FilePicker::close)
PickerEsc ==
  /\ files.picker.open
  /\ files' = [files EXCEPT !.picker =
                 IF @.query # <<>>
                 THEN recompute_visible([@ EXCEPT !.query = <<>>])
                 ELSE [@ EXCEPT !.open = FALSE]]
  /\ UNCHANGED <<vjobs, ijobs, envVars, uiVars, rpcVars, evtVars, netVars>>

PickNext == PickerOpen \/ PickerPush \/ PickerPop \/ PickerEsc
SpecPick == Init /\ [][PickNext]_vars

\* A directory with two entries whose names are made of d, o and X
MaxRankLabel == 3
RankChars == {"d", "o", "X"}
RankLabels == SeqsUpTo(RankChars, MaxRankLabel) \ {<<>>}

\* FilesTab::add_open, FilePicker::open on a directory with two entries, in
\* the order read_dir gives them
RankOpen ==
  /\ ~files.picker.open
  /\ \E a \in RankLabels, b \in RankLabels :
       /\ a # b
       /\ files' = [files EXCEPT !.picker = picker_open(@, <<a, b>>)]
  /\ UNCHANGED <<vjobs, ijobs, envVars, uiVars, rpcVars, evtVars, netVars>>

\* Two directories, each with two entries
MarkListings ==
  {<<<<"d", "o">>, <<"X", "d">>>>, <<<<"o">>, <<"d", "o", "X">>>>}

\* FilesTab::add_open, FilePicker::open on one of these directories
MarkOpen ==
  /\ ~files.picker.open
  /\ \E entries \in MarkListings :
       files' = [files EXCEPT !.picker = picker_open(@, entries)]
  /\ UNCHANGED <<vjobs, ijobs, envVars, uiVars, rpcVars, evtVars, netVars>>

\* KeyCode::Tab: FilePicker::toggle_selected_current on the focused row
PickerToggle ==
  /\ files.picker.open
  /\ files' = [files EXCEPT !.picker =
                 IF @.table_sel # NoneIdx /\ @.table_sel < Len(@.visible)
                 THEN toggle(@, @.items[@.visible[@.table_sel + 1].item_idx + 1],
                             @.table_sel)
                 ELSE @]
  /\ UNCHANGED <<vjobs, ijobs, envVars, uiVars, rpcVars, evtVars, netVars>>

\* 'j' / 'k': FilePicker::move_selection(1) / move_selection(-1)
PickerMove ==
  /\ files.picker.open
  /\ \E delta \in {-1, 1} :
       files' = [files EXCEPT !.picker =
         IF @.visible = <<>> THEN [@ EXCEPT !.table_sel = NoneIdx]
         ELSE LET cur == IF @.table_sel = NoneIdx THEN 0 ELSE @.table_sel
                  next == IF cur + delta < 0 THEN 0
                          ELSE IF cur + delta > Len(@.visible) - 1
                          THEN Len(@.visible) - 1
                          ELSE cur + delta
              IN [@ EXCEPT !.table_sel = next, !.anchor = next]]
  /\ UNCHANGED <<vjobs, ijobs, envVars, uiVars, rpcVars, evtVars, netVars>>

\* (a key typed into the search line that also drops the marks)
RankPushClearing ==
  /\ files.picker.open
  /\ Len(files.picker.query) < MaxQuery
  /\ \E c \in RankChars :
       files' = [files EXCEPT !.picker =
                   recompute_visible([@ EXCEPT !.query = Append(@, c), !.sel = {}])]
  /\ UNCHANGED <<vjobs, ijobs, envVars, uiVars, rpcVars, evtVars, netVars>>

\* KeyCode::Char(c) with the focus on the search line, c one of d, o, X
RankPush ==
  /\ files.picker.open
  /\ Len(files.picker.query) < MaxQuery
  /\ \E c \in RankChars :
       files' = [files EXCEPT !.picker =
                   recompute_visible([@ EXCEPT !.query = Append(@, c)])]
  /\ UNCHANGED <<vjobs, ijobs, envVars, uiVars, rpcVars, evtVars, netVars>>

RankNext == RankOpen \/ RankPush \/ PickerPop \/ PickerEsc
SpecRank == Init /\ [][RankNext]_vars

MarkNext ==
  \/ MarkOpen \/ RankPush \/ PickerPop \/ PickerEsc \/ PickerToggle \/ PickerMove
SpecMark == Init /\ [][MarkNext]_vars

\* The keys pressed: q, the digits of the Network and the Files tab, the keys
\* that open the new-topic dialog and the file picker, and Esc
Keys == {"q", "1", "4", "n", "a", "Esc"}

\* TabId::from_number(top_row_char_to_number(c)) for the digits above
TabOfKey(key) == IF key = "1" THEN "Network" ELSE "Files"

\* NetworkTab::on_key while the new-topic dialog is open (focus on the name)
TopicNewKey(n, key) ==
  IF key = "Esc" THEN [n EXCEPT !.topic_new.open = FALSE]
  ELSE [n EXCEPT !.topic_new.name = Append(@, key)]

\* FilePicker::on_key (focus on the search line), and what FilesTab::on_key
\* makes of PickerAction::Cancel
PickerKey(pk, key) ==
  IF key = "Esc"
  THEN (IF pk.query # <<>> THEN recompute_visible([pk EXCEPT !.query = <<>>])
        ELSE [pk EXCEPT !.open = FALSE])
  ELSE recompute_visible([pk EXCEPT !.query = Append(@, key)])

\* main, Event::Key: the new-topic dialog of the Network tab takes the key
\* before anything else; then q quits; then a digit switches the tab; every
\* other key goes to on_key of the active tab. The loop ends after an
\* iteration that finds should_quit when it does not `continue`.
Route(key) ==
  IF app.active_tab = "Network" /\ net.topic_new.open
  THEN net' = TopicNewKey(net, key) /\ ui_pc' = "poll" /\ UNCHANGED <<app, files>>
  ELSE IF key = "q"
  THEN app' = [app EXCEPT !.should_quit = TRUE] /\ ui_pc' = "poll" /\ UNCHANGED <<net, files>>
  ELSE IF key \in {"1", "4"}
  THEN /\ app' = [app EXCEPT !.active_tab = TabOfKey(key)]
       /\ ui_pc' = IF app.should_quit THEN "quit" ELSE "poll"
       /\ UNCHANGED <<net, files>>
  ELSE /\ net' = IF app.active_tab = "Network" /\ key = "n"
                 THEN [net EXCEPT !.topic_new = [open |-> TRUE, name |-> <<>>]]
                 ELSE net
       /\ \E entries \in {<<>>, <<<<"d", "o">>>>} :
            files' = IF app.active_tab = "Files"
                     THEN (IF files.picker.open
                           THEN [files EXCEPT !.picker = PickerKey(@, key)]
                           ELSE IF key = "a"
                           THEN [files EXCEPT !.picker = picker_open(@, entries)]
                           ELSE files)
                     ELSE files
       /\ ui_pc' = IF app.should_quit THEN "quit" ELSE "poll"
       /\ UNCHANGED app

\* A key is pressed (the text typed into a dialog is capped at MaxQuery)
KeyPress ==
  /\ ui_pc = "input"
  /\ Len(net.topic_new.name) < MaxQuery
  /\ Len(files.picker.query) < MaxQuery
  /\ \E key \in Keys : Route(key)
  /\ UNCHANGED <<jl_jobs, vjobs, ijobs, envVars, rpcVars, evtVars>>

SpecKeys == Init /\ [][LoopNext \/ KeyPress]_vars

\* The decimal digits of n
RECURSIVE Decimal(_)
Decimal(n) ==
  LET digit == <<"0", "1", "2", "3", "4", "5", "6", "7", "8", "9">>[(n % 10) + 1]
  IN IF n < 10 THEN <<digit>> ELSE Append(Decimal(n \div 10), digit)

\* The log entries of "log" events received earlier, the k-th with ts k
EarlierLogs ==
  [k \in 1..LogsMax |-> [ts |-> Decimal(k), level |-> <<"info">>, message |-> <<"m0">>]]

\* The first n of them
PriorLogs(n) == SubSeq(EarlierLogs, 1, n)

\* How many entries arrived before: none, or enough to fill the buffer, or
\* one less
PriorLens == {0, LogsMax - 1, LogsMax}

\* The client in its loop, the subscription open, after the entries of
\* PriorLogs(n) were pushed (delivered: the events handled from here on)
LogInit ==
  /\ RpcInit /\ NetInit /\ FilesInit
  /\ ui_pc = "poll"
  /\ evt_pc = "reading"
  /\ evt_q = <<>>
  /\ wire_log = <<>>
  /\ delivered = <<>>
  /\ daemon = [topics |-> Topics, joined |-> {}, files |-> Paths, ver |-> 0]
  /\ \E n \in PriorLens :
       app = [should_quit |-> FALSE, active_tab |-> "Network",
              logs |-> PriorLogs(n), stats_json |-> None]

\* The event thread and the loop of main with a log buffer that fills up
LogNext == PollAsync \/ DrainDone \/ NoInput \/ HandleEvent \/ EvtReadLine
SpecLog == LogInit /\ [][LogNext]_vars

\* The Files tab with its list changing under the selection
ListNext ==
  \/ FilesRefreshKey \/ FilesNav \/ ToggleSelectedCurrent \/ SelectAll
  \/ FilesRemoveSelected \/ IRun
SpecList == Init /\ [][LoopNext \/ SwitchTab \/ ListNext]_vars

\* The Files tab with every way of marking rows while its list changes
MarksNext == ListNext \/ InvertSelection \/ ClearSelection \/ ShiftClick
SpecMarks == Init /\ [][LoopNext \/ SwitchTab \/ MarksNext]_vars

SelNext ==
  \/ MsToggle \/ MsRangeSelect \/ MsSelectAll \/ MsInvert \/ MsClear
  \/ MsSetAnchor \/ MsRetainExisting \/ MsSetKeys \/ MsReloadItems
SpecSel == Init /\ [][SelNext]_vars

BatchNext ==
  VConnect \/ VProgress \/ VCall \/ IRun \/ PollAsync \/ DrainDone \/ NoInput
SpecBatch == BatchInit /\ [][BatchNext]_vars

\* Both tabs: the three classes of jobs side by side
SpecTabs == Init /\ [][LoopNext \/ SwitchTab \/ TabsNext]_vars

\* The dispatches of both tabs and their threads, which get their turn
DispatchNext ==
  \/ JLNext
  \/ SelectAll \/ VerifySelected \/ VConnect \/ VProgress \/ VCall
SpecDispatch == Init /\ [][LoopNext \/ SwitchTab \/ DispatchNext]_vars
FairSpecDispatch ==
  /\ SpecDispatch
  /\ WF_vars(JLConnect) /\ WF_vars(JLCall) /\ WF_vars(JLOverview)
  /\ WF_vars(VConnect) /\ WF_vars(VProgress) /\ WF_vars(VCall)

\* The whole client
Next ==
  \/ RpcNext \/ EvtNext \/ LoopNext \/ HandleEvent \/ SwitchTab
  \/ TabsNext \/ FilesNext \/ NetNav \/ NetRemoveSelected \/ FilesRemoveSelected
  \/ SelectAll \/ RefreshCall \/ RefreshReturn

Spec == Init /\ [][Next]_vars

\* ------------------------------------------------- claims: the RPC client
\* The frame read by the step just taken, when the step is a pass of the
\* read loop of rpc().
ReadStep == rpc_pc = "reading" /\ rpc_nread' = rpc_nread + 1

\* The frame is a response whose id is the decimal string of the
\* outstanding id.
AnswersOutstanding(l, id) ==
  /\ l.type.t = "str" /\ l.type.s = <<"res">>
  /\ l.id.t = "str" /\ l.id.s = Digits(id)

\* C5: RPC id correlation.  A parsed frame that is not a response, or whose
\* id differs from the outstanding id, leaves the call pending; the call is
\* resolved by a parsed frame exactly when that frame is a response carrying
\* the outstanding id.
C5_IdCorrelation ==
  [][(ReadStep /\ rpc_buf'.parse = "json") =>
       IF AnswersOutstanding(rpc_buf', rpc_id)
       THEN rpc_pc' = "idle" /\ rpc_ret' # RetNone
       ELSE rpc_pc' = "reading" /\ rpc_ret' = RetNone]_vars

\* Witness of C5: call 2 skipped a well-formed answer to call 1 and was then
\* resolved by the answer carrying id "2".
C5_Witness ==
  /\ rpc_pc = "idle" /\ rpc_id = 2 /\ rpc_ret = RetOk(JStr(<<"r1">>))
  /\ rpc_skip.parse = "json" /\ rpc_skip.type = JStr(<<"res">>)
  /\ rpc_skip.id = JStr(<<"1">>) /\ rpc_skip.ok = JBool(TRUE)
  /\ rpc_buf.id = JStr(<<"2">>)

\* C6 as claimed: a blank or unparsable line read while a call waits is
\* ignored, the call keeps reading.
C6_BlankOrBadLineIgnored ==
  [][(ReadStep /\ rpc_buf'.parse \in {"blank", "bad"}) =>
       (rpc_pc' = "reading" /\ rpc_ret' = RetNone)]_vars


\* --------------------------------------------- claims: the event stream
\* The events event_thread sends for a sequence of lines, oldest first
RECURSIVE DecodableEvents(_)
DecodableEvents(log) ==
  IF log = <<>> THEN <<>>
  ELSE (IF Head(log).parse = "json" /\ AsStr(Head(log).type) = <<(<<"evt">>)>>
           /\ TryFromValue(Head(log)).ok
        THEN <<TryFromValue(Head(log)).evt>> ELSE <<>>)
       \o DecodableEvents(Tail(log))

\* C7: the events handed to the consumer, followed by those still queued,
\* are the decodable events of the lines received, in the order received:
\* nothing is reordered, duplicated or lost between the wire and the consumer.
C7_EventOrdering == delivered \o evt_q = DecodableEvents(wire_log)

\* Two different events were received and both were handed over.
C7_Witness ==
  /\ Len(delivered) = 2
  /\ delivered[1] # delivered[2]
  /\ Len(wire_log) = 2

\* The step of event_thread that reads one line
ReadsLine == Len(wire_log') = Len(wire_log) + 1

LineRead == wire_log'[Len(wire_log')]

IsEvtFrame(l) == l.parse = "json" /\ AsStr(l.type) = <<(<<"evt">>)>>

RecognizedNames ==
  {<<"log">>, <<"network", ".", "stats">>, <<"state", ".", "files">>,
   <<"state", ".", "topics">>}

InNamespace(name) ==
  StartsWith(name, <<"network", ".">>) \/ StartsWith(name, <<"state", ".">>)

\* The line read was queued as an opaque event with its name and payload.
QueuedAsOther(l) ==
  /\ Len(evt_q') = Len(evt_q) + 1
  /\ evt_q'[Len(evt_q')].sub = "Other"
  /\ evt_q'[Len(evt_q')].name = EventName(l)
  /\ evt_q'[Len(evt_q')].data = EventData(l)

\* C8 as stated: every event frame whose name is not a recognized one,
\* whatever its namespace, is queued as an opaque event with its raw name and
\* payload. (Refuted: the name "download.progress" is not queued.)
C8_EveryUnrecognizedPreserved ==
  [][(ReadsLine /\ IsEvtFrame(LineRead) /\ LineRead.event.t = "str"
        /\ EventName(LineRead) \notin RecognizedNames)
       => QueuedAsOther(LineRead)]_vars

\* C8 amended: an event frame with an unrecognized name is queued as an
\* opaque event with its raw name and payload when the name starts with
\* "network." or "state."; with any other name it is dropped and the thread
\* reads on.
C8_NamespacedPreserved ==
  [][(ReadsLine /\ IsEvtFrame(LineRead) /\ EventName(LineRead) \notin RecognizedNames)
       => IF InNamespace(EventName(LineRead))
          THEN QueuedAsOther(LineRead)
          ELSE evt_q' = evt_q /\ evt_pc' = "reading"]_vars

\* A frame named "download.progress" was dropped and the unknown
\* "network.peers" frame read after it was handed over.
C8_Witness ==
  /\ Len(wire_log) = 2
  /\ EventName(wire_log[1]) = <<"download", ".", "progress">>
  /\ EventName(wire_log[2]) = <<"network", ".", "peers">>
  /\ Len(delivered) = 1
  /\ delivered[1].sub = "Other"
  /\ evt_q = <<>>

\* C9: a frame whose name starts with "state." or "network." and is no known
\* kind decodes into Other with exactly that name and the frame's data, null
\* when the frame has no data, and is queued like any other event.
C9_UnknownKindIsOther ==
  [][(ReadsLine /\ IsEvtFrame(LineRead) /\ InNamespace(EventName(LineRead))
        /\ EventName(LineRead) \notin RecognizedNames)
       => /\ TryFromValue(LineRead).ok
          /\ TryFromValue(LineRead).evt.kind
               = (IF StartsWith(EventName(LineRead), <<"state", ".">>)
                  THEN "State" ELSE "Network")
          /\ TryFromValue(LineRead).evt.sub = "Other"
          /\ TryFromValue(LineRead).evt.name = EventName(LineRead)
          /\ TryFromValue(LineRead).evt.data
               = (IF LineRead.data = Absent THEN Null ELSE LineRead.data)
          /\ evt_q' = Append(evt_q, TryFromValue(LineRead).evt)]_vars

\* "state.unknown_future_kind" without data reached the consumer as
\* Other {name, data: null}.
C9_Witness ==
  \E i \in 1..Len(delivered) :
    /\ delivered[i].kind = "State"
    /\ delivered[i].sub = "Other"
    /\ delivered[i].name = <<"state", ".", "unknown_future_kind">>
    /\ delivered[i].data = Null


\* ------------------------------------------- claims: the background jobs
\* The call of poll_async on both tabs in the loop of main
PollStep == ui_pc = "poll" /\ ui_pc' = "drain"

\* What the user sees of each class
NetConsumer(n) == <<n.topics, n.selected, n.join_leave_busy, n.last_error>>

VerifyConsumer(f) == <<f.verify_progress, f.last_verify>>

InfoConsumer(f) == <<f.last_info>>

\* The result messages a join / leave thread may send
JoinLeaveResults(i) ==
  {JoinLeaveMsg(jl_jobs[i].req_id, "Done", Overview(daemon), "", i),
   JoinLeaveMsg(jl_jobs[i].req_id, "Error", NoOverview, ErrMsg("err"), i)}

\* The messages a verify thread may send
VerifyResults(i) ==
  {VerifyMsg(vjobs[i].req_id, "Progress", 0, Len(vjobs[i].paths), NoValue, "", i),
   VerifyMsg(vjobs[i].req_id, "Done", 0, 0, VerifyValue(vjobs[i]), "", i),
   VerifyMsg(vjobs[i].req_id, "Error", 0, 0, NoValue, "connect IPC", i)}

\* The messages an info thread may send
InfoResults(i) ==
  {InfoMsg(ijobs[i].req_id, ijobs[i].path, TRUE, ijobs[i].path, i),
   InfoMsg(ijobs[i].req_id, ijobs[i].path, FALSE, ErrMsg("err"), i)}

\* C1: in every call of poll_async, for each of the three classes, (a) only
\* messages of the job dispatched last are applied, (b) a message of any job
\* whose generation is not the current one of its class is discarded, leaving
\* the tab as it is, and (c) when no message is applied the state the user
\* sees of that class is unchanged.
C1_StaleResultImmunity ==
  [][PollStep =>
       /\ net'.applied \subseteq {Len(jl_jobs)}
       /\ files'.applied_verify \subseteq {Len(vjobs)}
       /\ files'.applied_info \subseteq {Len(ijobs)}
       /\ \A i \in 1..Len(jl_jobs) :
            jl_jobs[i].req_id # net.join_leave_req_id
              => \A m \in JoinLeaveResults(i) : NetApply(net, m) = net
       /\ \A i \in 1..Len(vjobs) :
            vjobs[i].req_id # files.verify_req_id
              => \A m \in VerifyResults(i) : VerifyApply(files, m) = files
       /\ \A i \in 1..Len(ijobs) :
            ijobs[i].req_id # files.info_req_id
              => \A m \in InfoResults(i) : InfoApply(files, m) = files
       /\ (net'.applied = {} => NetConsumer(net') = NetConsumer(net))
       /\ (files'.applied_verify = {} => VerifyConsumer(files') = VerifyConsumer(files))
       /\ (files'.applied_info = {} => InfoConsumer(files') = InfoConsumer(files))
       /\ (net'.applied = {} /\ files'.applied_verify = {} /\ files'.applied_info = {}
             => net'.last_error = net.last_error /\ files'.last_error = files.last_error)]_vars

\* A join or leave was dispatched (generation 1), then another (generation 2)
\* before the first resolved; the first one's result came afterwards and was
\* not consumed, the second one's was applied by poll_async.
C1_Witness ==
  /\ Len(jl_jobs) = 2
  /\ jl_jobs[1].pc = "done"
  /\ jl_jobs[1].dropped
  /\ net.applied = {2}
  /\ net.join_leave_req_id = 2

\* The same for a verify batch and for a file-info request.
C1_WitnessVerify ==
  /\ Len(vjobs) = 2
  /\ vjobs[1].pc = "done"
  /\ vjobs[1].dropped
  /\ files.applied_verify = {2}

C1_WitnessInfo ==
  /\ Len(ijobs) = 2
  /\ ijobs[1].pc = "done"
  /\ ijobs[1].dropped
  /\ files.applied_info = {2}

\* C3: in each class the i-th dispatch carries generation g + i, g = 0 the
\* generation the tab starts with, and the class's counter is the generation
\* of the last dispatch: the generations of a class increase by one from
\* dispatch to dispatch and none is used twice.
C3_GenerationMonotonic ==
  /\ net.join_leave_req_id = Len(jl_jobs)
  /\ files.verify_req_id = Len(vjobs)
  /\ files.info_req_id = Len(ijobs)
  /\ \A i \in 1..Len(jl_jobs) : jl_jobs[i].req_id = i
  /\ \A i \in 1..Len(vjobs) : vjobs[i].req_id = i
  /\ \A i \in 1..Len(ijobs) : ijobs[i].req_id = i

\* Two dispatches in the join / leave class and two in the verify class.
C3_Witness ==
  /\ Len(jl_jobs) = 2
  /\ jl_jobs[2].req_id = 2
  /\ net.join_leave_req_id = 2

C3_WitnessVerify ==
  /\ Len(vjobs) = 2
  /\ vjobs[2].req_id = 2
  /\ files.verify_req_id = 2

\* The channels and counters of the classes
JoinLeaveChannel(n) == <<n.join_leave_rx, n.join_leave_req_id, n.join_leave_q>>

VerifyChannel(f) == <<f.verify_rx, f.verify_req_id, f.verify_q>>

InfoChannel(f) == <<f.info_rx, f.info_req_id, f.info_q>>

\* A job still running whose result the tab would receive and accept
JoinLeaveDeliverable(n, j) ==
  j.pc # "done" /\ n.join_leave_rx = j.chan /\ n.join_leave_req_id = j.req_id

\* A step that dispatches a job of each class
DispatchesJoinLeave == Len(jl_jobs') = Len(jl_jobs) + 1

DispatchesVerify == Len(vjobs') = Len(vjobs) + 1

DispatchesInfo == Len(ijobs') = Len(ijobs) + 1

\* C4 as stated: join and leave are classes of their own, so a dispatch of
\* the one leaves a running job of the other deliverable. (Refuted: a leave
\* dispatched while a join runs replaces the join's receiver and generation.)
C4_JoinAndLeaveIndependent ==
  [][DispatchesJoinLeave =>
       \A i \in 1..Len(jl_jobs) :
         (jl_jobs[i].cls # jl_jobs'[Len(jl_jobs')].cls
            /\ JoinLeaveDeliverable(net, jl_jobs[i]))
           => JoinLeaveDeliverable(net', jl_jobs[i])]_vars

\* C4 amended: there are three classes with a counter and a channel each,
\* join-or-leave, verify and info. A dispatch in one class leaves the
\* counter, the receiver and the queued results of the two others as they
\* are; a join or a leave supersedes every running join and leave.
C4_ThreeClassesIndependent ==
  [][/\ DispatchesJoinLeave =>
          /\ VerifyChannel(files') = VerifyChannel(files)
          /\ InfoChannel(files') = InfoChannel(files)
          /\ \A i \in 1..Len(jl_jobs) : ~JoinLeaveDeliverable(net', jl_jobs[i])
     /\ DispatchesVerify =>
          /\ JoinLeaveChannel(net') = JoinLeaveChannel(net)
          /\ InfoChannel(files') = InfoChannel(files)
     /\ DispatchesInfo =>
          /\ JoinLeaveChannel(net') = JoinLeaveChannel(net)
          /\ VerifyChannel(files') = VerifyChannel(files)]_vars

\* The info request of startup is still running and deliverable after a
\* verify batch and a join or leave were dispatched.
C4_Witness ==
  /\ Len(ijobs) = 1
  /\ ijobs[1].pc = "call"
  /\ files.info_rx = ijobs[1].chan
  /\ files.info_req_id = ijobs[1].req_id
  /\ Len(vjobs) = 1
  /\ Len(jl_jobs) = 1

\* C2 as stated: no call of poll_async replaces the overview shown by one
\* that was read from the daemon in an earlier state. (Refuted.)
C2_NoStaleOverwrite ==
  [][PollStep => net'.shown_ver >= net.shown_ver]_vars


\* ------------------------------------------------ claims: the verify batch
\* The step in which verify thread i sends its terminal message and ends
VerifyEnds(i) == vjobs[i].pc # "done" /\ vjobs'[i].pc = "done"

\* The last message a step put on the verify channel
LastVerifyMsg == files'.verify_q[Len(files'.verify_q)]

\* The results hold one outcome per path, in the order of the paths, and the
\* counts are those of the outcomes.
AllOutcomes(j) ==
  /\ Len(j.results) = Len(j.paths)
  /\ \A k \in 1..Len(j.paths) : j.results[k].path = j.paths[k]
  /\ j.ok_count = Cardinality({k \in 1..Len(j.results) : j.results[k].result = "valid"})
  /\ j.fail_count = Cardinality({k \in 1..Len(j.results) :
                                   j.results[k].result \in {"invalid", "err", "lost"}})

\* The thread ended with Done {value}, value holding all outcomes and the
\* counts, sent on its channel.
EndsWithAllOutcomes(i) ==
  /\ vjobs'[i].sent = "Done"
  /\ AllOutcomes(vjobs'[i])
  /\ VerifyValue(vjobs'[i]).summary.total = vjobs'[i].ok_count + vjobs'[i].fail_count
  /\ files.verify_rx = vjobs[i].chan =>
       /\ Len(files'.verify_q) = Len(files.verify_q) + 2
       /\ LastVerifyMsg.kind = "Done"
       /\ LastVerifyMsg.req_id = vjobs[i].req_id
       /\ LastVerifyMsg.value = VerifyValue(vjobs'[i])

\* C10 as stated: whatever fails, the terminal message of a batch holds the
\* outcomes of all n paths and the counts. (Refuted: when the thread cannot
\* connect, the terminal message is Error and holds no outcome.)
C10_AlwaysAllOutcomes ==
  [][\A i \in 1..Len(vjobs) :
       (Len(vjobs') = Len(vjobs) /\ VerifyEnds(i)) => EndsWithAllOutcomes(i)]_vars

\* C10 amended: once the thread has connected, the batch is never aborted:
\* whatever fails for an item, the terminal message is Done with the outcomes
\* of all n paths in input order and the counts; when the thread cannot
\* connect, the terminal message is Error and no path is verified.
C10_AllOutcomesOnceConnected ==
  [][\A i \in 1..Len(vjobs) :
       (Len(vjobs') = Len(vjobs) /\ VerifyEnds(i)) =>
         IF vjobs[i].pc = "connect"
         THEN /\ vjobs'[i].sent = "Error"
              /\ vjobs'[i].results = <<>>
              /\ files.verify_rx = vjobs[i].chan => LastVerifyMsg.kind = "Error"
         ELSE EndsWithAllOutcomes(i)]_vars

\* A batch of two paths whose connection broke at the first one ended with
\* Done, both outcomes recorded, and the tab shows the value.
C10_Witness ==
  \E i \in 1..Len(vjobs) :
    /\ vjobs[i].pc = "done"
    /\ vjobs[i].sent = "Done"
    /\ Len(vjobs[i].paths) = 2
    /\ vjobs[i].results[1].result = "lost"
    /\ vjobs[i].results[2].result = "lost"
    /\ files.last_verify = Some(VerifyValue(vjobs[i]))

\* What the claims on aggregation count: calls that returned valid true,
\* valid false or failed
CountedOutcomes == {"valid", "invalid", "err", "lost"}

HowMany(a, set) == Cardinality({k \in 1..Len(a) : a[k] \in set})

\* The Done messages of thread i now on the verify channel
DoneMsgsOf(i) ==
  {k \in 1..Len(files.verify_q) :
     files.verify_q[k].job = i /\ files.verify_q[k].kind = "Done"}

\* C11: a batch over n paths whose calls each returned valid true, valid
\* false or an error ends with a value whose summary has ok = the number of
\* valid true, failed = the number of valid false plus the number of errors
\* and total = n, and whose results are n entries in the order of the paths,
\* an error entry where the call failed; that value is the one sent.
C11_BatchAggregation ==
  \A i \in 1..Len(vjobs) :
    LET j == vjobs[i]
        v == VerifyValue(j)
        n == Len(j.paths)
    IN (j.sent = "Done" /\ HowMany(j.answers, CountedOutcomes) = Len(j.answers)) =>
         /\ Len(j.answers) = n
         /\ v.summary.ok = HowMany(j.answers, {"valid"})
         /\ v.summary.failed = HowMany(j.answers, {"invalid", "err", "lost"})
         /\ v.summary.total = n
         /\ Len(v.results) = n
         /\ \A k \in 1..n :
              /\ v.results[k].path = j.paths[k]
              /\ v.results[k].result = j.answers[k]
              /\ v.results[k].kind =
                   IF j.answers[k] \in {"err", "lost"} THEN "error" ELSE "result"
         /\ \A k \in DoneMsgsOf(i) : files.verify_q[k].value = v

\* Three paths answered valid true, valid false and an error: the tab shows
\* {ok: 1, failed: 2, total: 3} and three results.
C11_Witness ==
  \E i \in 1..Len(vjobs) :
    /\ vjobs[i].paths = <<"p1", "p2", "p3">>
    /\ vjobs[i].answers = <<"valid", "invalid", "err">>
    /\ files.last_verify # None
    /\ files.last_verify[1].summary = [ok |-> 1, failed |-> 2, total |-> 3]
    /\ Len(files.last_verify[1].results) = 3

\* ------------------------------------------------- Claims: verify progress
IsSend(e) == e.kind # "Call"
IsTerminal(e) == e.kind \in {"Done", "Error"}

\* The messages of thread i still on the verify channel are the last ones it
\* sent, in the order it sent them, each Progress with total = n and
\* done <= total.
QueueFollowsSends(i) ==
  LET sends == SelectSeq(vjobs[i].pub, IsSend)
      q == files.verify_q
      off == Len(sends) - Len(q)
  IN /\ off >= 0
     /\ \A k \in 1..Len(q) :
          /\ q[k].job = i
          /\ q[k].kind = sends[off + k].kind
          /\ q[k].kind = "Progress" =>
               /\ q[k].done = sends[off + k].done
               /\ q[k].total = Len(vjobs[i].paths)
               /\ q[k].done <= q[k].total

\* C12: in a verify thread over n paths the request for the i-th path
\* (i = 0..n-1) is written right after Progress {done: i} was published, the
\* requests go out in the order of the paths, the done of the Progress
\* messages never decreases and never exceeds n, and the terminal message is
\* the last thing published.
C12_ProgressOrdering ==
  \A i \in 1..Len(vjobs) :
    LET h == vjobs[i].pub
        n == Len(vjobs[i].paths)
        calls == SelectSeq(h, LAMBDA e : e.kind = "Call")
        progress == SelectSeq(h, LAMBDA e : e.kind = "Progress")
    IN /\ \A k \in 1..Len(h) :
            /\ h[k].kind = "Call" =>
                 k > 1 /\ h[k - 1] = Published("Progress", h[k].done)
            /\ IsTerminal(h[k]) => k = Len(h)
       /\ \A k \in 1..Len(calls) : calls[k].done = k - 1 /\ k <= n
       /\ \A k \in 1..Len(progress) :
            /\ progress[k].done <= n
            /\ k > 1 => progress[k - 1].done <= progress[k].done
       /\ vjobs[i].sent = "Done" => Len(calls) = n /\ h[Len(h)].kind = "Done"
       /\ (files.verify_rx = vjobs[i].chan /\ Len(vjobs) = 1) => QueueFollowsSends(i)

\* A batch of three paths has ended: three requests went out, four Progress
\* messages and Done were published, and the tab has taken them all.
C12_Witness ==
  \E i \in 1..Len(vjobs) :
    /\ Len(vjobs[i].paths) = 3
    /\ vjobs[i].sent = "Done"
    /\ Len(vjobs[i].pub) = 8
    /\ files.verify_q = <<>>
    /\ i \in files.applied_verify
    /\ files.verify_progress = None

\* ---------------------------------------------- Claims: join / leave jobs
JLEnds(i) == jl_jobs[i].pc # "done" /\ jl_jobs'[i].pc = "done"

MsgsOfJob(q, i) == Cardinality({k \in 1..Len(q) : q[k].job = i})

\* The step that ends thread i puts one message at the end of the channel the
\* thread got at dispatch: it has the req_id captured at dispatch, it is Done
\* with the overview the daemon gives after the call and the overview request
\* both succeeded, and it is Error for every failure.
EndsWithOneMessage(i) ==
  LET j == jl_jobs[i]
      q == net'.join_leave_q
      m == q[Len(q)]
  IN IF net.join_leave_rx = j.chan
     THEN /\ Len(q) = Len(net.join_leave_q) + 1
          /\ q = Append(net.join_leave_q, m)
          /\ m.job = i
          /\ m.req_id = j.req_id
          /\ m.kind \in {"Done", "Error"}
          /\ m.kind = "Done" => j.pc = "overview" /\ m.overview = Overview(daemon)
          /\ m.kind = "Error" => m.message # "" /\ m.overview = NoOverview
          /\ j.pc \in {"connect", "call"} => m.kind = "Error"
          /\ ~jl_jobs'[i].dropped
     ELSE /\ net' = net
          /\ jl_jobs'[i].dropped

\* C13: every join or leave thread ends, and it ends by sending exactly one
\* message, Done or Error, with the req_id captured at dispatch; Done holds
\* the overview fetched after the call succeeded, every failure is an Error
\* message on the same channel; a thread sends nothing before and nothing
\* after.
C13_OneTerminalMessage ==
  /\ [][\A i \in 1..Len(jl_jobs) :
          IF JLEnds(i) THEN EndsWithOneMessage(i)
          ELSE /\ MsgsOfJob(net'.join_leave_q, i) <= MsgsOfJob(net.join_leave_q, i)
               /\ jl_jobs[i].pc = "done" => jl_jobs'[i].pc = "done"]_vars
  /\ \A i \in 1..MaxJobs :
       (Len(jl_jobs) >= i) ~> (Len(jl_jobs) >= i /\ jl_jobs[i].pc = "done")

\* A join ended with Done and a leave ended with Error on a failed call, each
\* delivered; the tab has taken both.
C13_Witness ==
  /\ Len(jl_jobs) = 2
  /\ jl_jobs[1].cls = "join" /\ jl_jobs[2].cls = "leave"
  /\ jl_jobs[1].pc = "done" /\ jl_jobs[2].pc = "done"
  /\ ~jl_jobs[1].dropped /\ ~jl_jobs[2].dropped
  /\ jl_jobs[1].name \in daemon.joined
  /\ net.last_error = Some(ErrMsg("err"))
  /\ net.join_leave_q = <<>>

\* ------------------------------------------------ Claims: superseded jobs
JoinLeaveSuperseded(i) == net.join_leave_rx # jl_jobs[i].chan
VerifySuperseded(i) == files.verify_rx # vjobs[i].chan

\* Every thread superseded so far has ended (a superseded thread stays
\* superseded and an ended one stays ended)
AllSupersededEnded ==
  /\ \A i \in 1..Len(jl_jobs) : JoinLeaveSuperseded(i) => jl_jobs[i].pc = "done"
  /\ \A i \in 1..Len(vjobs) : VerifySuperseded(i) => vjobs[i].pc = "done"

\* C14: a newer dispatch of the same class leaves every older thread as it
\* is; a superseded thread still takes each of its steps: its topic.join /
\* topic.leave reaches the daemon and changes it, a superseded verify thread
\* that has connected calls files.verify for every path and ends with Done;
\* every superseded thread runs to its end (again and again all superseded
\* threads have ended), where only its result is discarded: nothing of the
\* tab changes.
C14_SupersededRunsToCompletion ==
  /\ [][\A i \in 1..Len(jl_jobs) :
          /\ DispatchesJoinLeave => jl_jobs'[i] = jl_jobs[i]
          /\ (JoinLeaveSuperseded(i) /\ jl_jobs[i].pc = "call"
                 /\ jl_jobs'[i].pc = "overview") =>
               daemon' = IF jl_jobs[i].cls = "join"
                         THEN DJoin(daemon, jl_jobs[i].name)
                         ELSE DLeave(daemon, jl_jobs[i].name)
          /\ (JoinLeaveSuperseded(i) /\ JLEnds(i)) => net' = net]_vars
  /\ [][\A i \in 1..Len(vjobs) :
          /\ DispatchesVerify => vjobs'[i] = vjobs[i]
          /\ (VerifySuperseded(i) /\ VerifyEnds(i)) =>
               /\ files' = files
               /\ vjobs[i].pc # "connect" =>
                    /\ vjobs'[i].sent = "Done"
                    /\ Len(vjobs'[i].answers) = Len(vjobs[i].paths)]_vars
  /\ []<>AllSupersededEnded

\* A join whose request went out after a leave had replaced its channel: the
\* daemon joined the topic, the thread ended and its result was dropped.
C14_Witness ==
  /\ Len(jl_jobs) >= 2
  /\ jl_jobs[1].cls = "join"
  /\ jl_jobs[1].late
  /\ jl_jobs[1].pc = "done"
  /\ jl_jobs[1].dropped
  /\ jl_jobs[1].name \in daemon.joined

\* A verify batch of two paths, both requests written after a newer batch
\* had replaced its channel, ended with Done, which was dropped.
C14_WitnessVerify ==
  /\ Len(vjobs) >= 2
  /\ Len(vjobs[1].paths) = 2
  /\ vjobs[1].late = 2
  /\ vjobs[1].sent = "Done"
  /\ vjobs[1].dropped

\* ------------------------------------------------- Claims: connections
\* A step of a thread of a job
ThreadStep == jl_jobs' # jl_jobs \/ vjobs' # vjobs \/ ijobs' # ijobs

\* The RpcClient of the UI thread can take the step it is at
PrimaryCanStep ==
  /\ (rpc_pc = "idle" /\ next_id <= MaxCalls) => ENABLED RpcCall
  /\ (rpc_pc = "reading" /\ rpc_nread < MaxLines) => ENABLED RpcReadLine

\* C15: no step of a thread of a join, leave, verify or file-info job writes
\* to or reads from the connection of the RpcClient of the UI thread: its
\* request counter, the call in progress and the lines read stay as they
\* are; every thread starts by opening its connection; and whatever the
\* threads are doing, the call of the UI thread can take its next step.
C15_JobsLeavePrimaryAlone ==
  /\ [][ThreadStep => UNCHANGED rpcVars]_vars
  /\ [][\A i \in 1..Len(jl_jobs) :
          jl_jobs'[i].pc \in {"call", "overview"} =>
            jl_jobs[i].pc \in {"connect", "call", "overview"}]_vars
  /\ []PrimaryCanStep

\* A call of the UI thread is waiting for its answer with id 1 while the
\* join thread has made its call and the verify thread has ended.
C15_Witness ==
  /\ rpc_pc = "reading"
  /\ rpc_id = 1
  /\ next_id = 2
  /\ jl_jobs[1].pc = "overview"
  /\ vjobs[1].pc = "done"
  /\ ijobs[1].pc = "done"

\* --------------------------------------------------- Claims: the UI loop
\* C16 as stated: whatever the daemon does, also when it never answers, the
\* loop of main comes back to its top (poll_async, the drain of the events,
\* the input) again and again. (Refuted: refresh calls rpc() on the UI
\* thread, and rpc() sits in read_line until the daemon sends a line.)
C16_LoopKeepsTicking == []<>(ui_pc = "poll")

\* ------------------------------------------------- Claims: failed refresh
\* A step of a key handler that sets the last error of a tab: a refresh whose
\* call failed (a dispatch clears the error, poll_async is not a handler)
SetsLastError(old, new) ==
  /\ ui_pc = "input" /\ ui_pc' = "poll"
  /\ new.last_error # old.last_error
  /\ new.last_error # None

\* C17: a refresh whose call fails changes nothing but last_error: the topics
\* and the files listed, the focused rows, the selection, the channels,
\* req_ids, busy and progress of the jobs in flight and the threads
\* themselves stay as they are, and no file-info job is started.
C17_FailedRefreshKeepsState ==
  /\ [][SetsLastError(net, net') =>
          /\ net' = [net EXCEPT !.last_error = Some(ErrMsg("err"))]
          /\ UNCHANGED <<jl_jobs, files, vjobs, ijobs, daemon>>]_vars
  /\ [][SetsLastError(files, files') =>
          /\ files' = [files EXCEPT !.last_error = Some(ErrMsg("err"))]
          /\ UNCHANGED <<vjobs, ijobs, net, jl_jobs, daemon>>]_vars

\* The files.list call of a refresh failed while a verify batch over the
\* selected row was in flight: the two rows, the selection and the progress
\* are still there.
C17_Witness ==
  /\ files.last_error = Some(ErrMsg("err"))
  /\ Len(files.entries) = 2
  /\ files.sel # {}
  /\ files.verify_progress # None
  /\ Len(vjobs) = 1
  /\ vjobs[1].pc # "done"

\* The network.overview call of a refresh failed while a join was in flight
C17_WitnessNetwork ==
  /\ net.last_error = Some(ErrMsg("err"))
  /\ net.topics # <<>>
  /\ net.join_leave_busy # None
  /\ Len(jl_jobs) = 1
  /\ jl_jobs[1].pc = "connect"

\* ------------------------------------------------ Claims: RPC resolution
\* C18: the first frame that is a response with the id of the call decides
\* the call: with ok true the call returns the result of the frame (null
\* when the frame has none); with anything else the call fails, with the
\* error.message string of the frame as it is, or with "RPC error" when the
\* frame has none; no further line is read for the call.
C18_FirstMatchingResponseDecides ==
  /\ [][(ReadStep /\ rpc_buf'.parse = "json" /\ AnswersOutstanding(rpc_buf', rpc_id)) =>
          /\ rpc_pc' = "idle"
          /\ IF rpc_buf'.ok.t = "bool" /\ rpc_buf'.ok.s = <<"true">>
             THEN rpc_ret' = [ok |-> TRUE,
                              val |-> IF rpc_buf'.result.t = "absent" THEN Null
                                      ELSE rpc_buf'.result]
             ELSE rpc_ret' = [ok |-> FALSE,
                              val |-> IF rpc_buf'.emsg.t = "str" THEN rpc_buf'.emsg
                                      ELSE JStr(<<"RPC error">>)]]_vars
  /\ [][(rpc_pc = "idle" /\ rpc_nread' # rpc_nread) =>
          (rpc_id' # rpc_id /\ rpc_nread' = 0)]_vars

\* Call 1 skipped a frame and then failed with the message "boom" of the
\* response with id "1" and ok false.
C18_Witness ==
  /\ rpc_pc = "idle" /\ rpc_id = 1 /\ rpc_nread = 2
  /\ rpc_buf.id = JStr(<<"1">>)
  /\ rpc_buf.ok = JBool(FALSE)
  /\ rpc_buf.emsg = JStr(<<"boom">>)
  /\ rpc_ret = [ok |-> FALSE, val |-> JStr(<<"boom">>)]

\* A response without error.message failed the call with "RPC error"
C18_WitnessGeneric ==
  /\ rpc_pc = "idle"
  /\ rpc_buf.parse = "json" /\ rpc_buf.type = JStr(<<"res">>)
  /\ rpc_buf.id = JStr(Digits(rpc_id))
  /\ rpc_buf.emsg = Absent
  /\ rpc_ret = [ok |-> FALSE, val |-> JStr(<<"RPC error">>)]

\* ------------------------------------------------ Claims: connection loss
\* C19: a read of zero bytes while a call waits fails the call with "daemon
\* disconnected"; the client writes the request no second time (no new id
\* is taken, the call is over) and never gets a new connection: the
\* connection stays lost and no later call on it succeeds.
C19_DisconnectFailsCall ==
  /\ [][(ReadStep /\ rpc_buf'.parse = "eof") =>
          /\ rpc_pc' = "idle"
          /\ rpc_ret' = [ok |-> FALSE, val |-> JStr(<<"daemon disconnected">>)]
          /\ next_id' = next_id
          /\ rpc_id' = rpc_id
          /\ rpc_eof']_vars
  /\ [][rpc_eof => (rpc_eof' /\ ~rpc_ret'.ok)]_vars

\* Call 1 skipped a frame, then read zero bytes and failed; nothing was
\* sent after it.
C19_Witness ==
  /\ rpc_pc = "idle" /\ rpc_id = 1 /\ next_id = 2
  /\ rpc_nread = 2
  /\ rpc_buf = Eof
  /\ rpc_eof
  /\ rpc_ret = RetErr("daemon disconnected")

\* ---------------------------------------------------- Claims: request ids
\* C20: on one connection the k-th request carries as id the decimal string
\* of k, whatever became of the calls before: the ids are all different and
\* go up by one; the counter is one ahead of the requests written.
C20_RequestIdsCount ==
  /\ next_id = Len(rpc_sent) + 1
  /\ \A k \in 1..Len(rpc_sent) :
       /\ rpc_sent[k] = [t |-> "str", s |-> Digits(k)]
       /\ k < 10 => rpc_sent[k].s = <<DigitChars[k + 1]>>
       /\ \A j \in 1..(k - 1) : rpc_sent[j] # rpc_sent[k]
  /\ rpc_pc = "reading" => rpc_id = Len(rpc_sent)

\* Call 1 ended on a lost connection; call 2 was written all the same, with
\* id "2", and has read nothing yet.
C20_Witness ==
  /\ rpc_sent = <<JStr(<<"1">>), JStr(<<"2">>)>>
  /\ rpc_eof
  /\ rpc_pc = "reading"
  /\ rpc_id = 2
  /\ rpc_nread = 0

\* -------------------------------------------- Claims: event stream errors
\* The line yields an event: it parses, it is an event frame and it decodes
Decodable(l) == IsEvtFrame(l) /\ TryFromValue(l).ok

\* C21: a line of the event stream that does not parse, a frame that is no
\* event frame (such as the response to the subscription) and an event frame
\* that does not decode put nothing on the channel and leave the thread
\* reading; a decodable event frame read by the thread, whatever was read
\* before it, is put on the channel.
C21_UndecodableLinesSkipped ==
  [][ReadsLine =>
       /\ evt_pc' = "reading"
       /\ IF Decodable(LineRead)
          THEN evt_q' = Append(evt_q, TryFromValue(LineRead).evt)
          ELSE evt_q' = evt_q]_vars

\* The thread read the response to the subscription and then a log event,
\* which main has handed over.
C21_Witness ==
  /\ Len(wire_log) = 2
  /\ AsStr(wire_log[1].type) = <<(<<"res">>)>>
  /\ EventName(wire_log[2]) = <<"log">>
  /\ Decodable(wire_log[2])
  /\ delivered = <<TryFromValue(wire_log[2]).evt>>

\* The same after a line that does not parse and after an event frame that
\* does not decode
C21_WitnessBadLine ==
  /\ Len(wire_log) = 2
  /\ wire_log[1].parse = "bad"
  /\ Decodable(wire_log[2])
  /\ Len(delivered) = 1

C21_WitnessUndecodable ==
  /\ Len(wire_log) = 2
  /\ IsEvtFrame(wire_log[1]) /\ ~TryFromValue(wire_log[1]).ok
  /\ Decodable(wire_log[2])
  /\ Len(delivered) = 1

\* C22: when the event stream ends or a read fails, event_thread is over for
\* good: that step puts nothing on the channel and shows nothing to the
\* consumer (App and the tabs stay as they are); from then on the thread
\* reads no line, connects no more and the channel only gets shorter.
C22_StreamEndIsFinal ==
  /\ [][(evt_pc = "reading" /\ evt_pc' = "done") =>
          UNCHANGED <<evt_q, wire_log, delivered, app, net, files>>]_vars
  /\ [][evt_pc # "connect" => evt_pc' # "connect"]_vars
  /\ [][evt_pc = "done" =>
          /\ evt_pc' = "done"
          /\ wire_log' = wire_log
          /\ Len(evt_q') <= Len(evt_q)]_vars

\* The stream ended after one event; main has handed that event over and
\* come back to the top of its loop with an empty channel.
C22_Witness ==
  /\ evt_pc = "done"
  /\ Len(wire_log) = 1
  /\ Len(delivered) = 1
  /\ evt_q = <<>>
  /\ ui_pc = "poll"

\* ---- Claims C23, C24: MultiSelectState::range_select ----

\* The keys of an ordered list at the indices lo..hi that the list has
KeysBetween(keys, lo, hi) ==
  {k \in KeysAt(keys, 0, Len(keys)) :
     \E i \in 1..Len(keys) : keys[i] = k /\ lo <= i - 1 /\ i - 1 <= hi}

\* C23: with an anchor, range_select adds to the selection exactly the keys
\* at the indices of the inclusive interval from min(anchor, target) to
\* max(anchor, target), removes nothing, and gives the same selection when
\* anchor and target are exchanged; over [a,b,c,d,e] with an empty selection
\* and anchor 1, a range to index 3 gives {b,c,d}.
C23_RangeSelectAddsInterval ==
  /\ files.anchor # NoneIdx =>
       \A target_idx \in Indices :
         LET r == range_select(files, files.entries, target_idx)
             lo == IF files.anchor <= target_idx THEN files.anchor ELSE target_idx
             hi == IF files.anchor <= target_idx THEN target_idx ELSE files.anchor
             swapped == range_select(set_anchor(files, target_idx),
                                     files.entries, files.anchor)
         IN /\ r.sel = files.sel \cup KeysBetween(files.entries, lo, hi)
            /\ files.sel \subseteq r.sel
            /\ r.anchor = files.anchor
            /\ swapped.sel = r.sel
  /\ range_select(set_anchor(FilesNew, 1), KeyOrder, 3).sel = {"b", "c", "d"}

\* A range from anchor 1 to index 3 over [a,b,c,d,e] has been selected
C23_Witness ==
  /\ files.entries = KeyOrder
  /\ files.anchor = 1
  /\ files.sel = {"b", "c", "d"}

\* C24: without an anchor, range_select to an index the list has leaves
\* exactly the key at that index selected, whatever was selected before.
C24_RangeSelectWithoutAnchor ==
  files.anchor = NoneIdx =>
    \A target_idx \in Indices :
      target_idx < Len(files.entries) =>
        LET r == range_select(files, files.entries, target_idx)
        IN /\ r.sel = {files.entries[target_idx + 1]}
           /\ Cardinality(r.sel) = 1

\* No anchor, something selected, and a list to select a range in
C24_Witness ==
  /\ files.anchor = NoneIdx
  /\ files.sel # {}
  /\ Len(files.entries) = Len(KeyOrder)
  /\ range_select(files, files.entries, 3).sel = {"d"}

\* ---- Claim C28: MultiSelectState::invert ----

\* C28: after invert(ordered_keys) the selection is exactly the keys of
\* ordered_keys that were not selected before (the complement within the
\* whole list), and inverting twice against the same list gives the previous
\* selection restricted to that list.
C28_InvertIsComplement ==
  \A keys \in KeyLists :
    LET K == {keys[i] : i \in 1..Len(keys)}
        once == invert(files, keys)
        twice == invert(once, keys)
    IN /\ once.sel \subseteq K
       /\ once.sel \cap files.sel = {}
       /\ once.sel \cup (files.sel \cap K) = K
       /\ twice.sel = files.sel \cap K
       /\ once.anchor = files.anchor

\* A selection reaching outside the list [a,c,e] has been inverted twice
C28_Witness ==
  /\ files.entries = <<"a", "c", "e">>
  /\ files.sel = {"a", "b", "d"}
  /\ invert(files, files.entries).sel = {"c", "e"}
  /\ invert(invert(files, files.entries), files.entries).sel = {"a"}

\* ---- Claim C27: the anchor and the selection ----

\* C27: no operation on the selection takes the anchor from present to absent
\* unless the selection is empty after that operation.
C27_AnchorOnlyLeavesWithSelection ==
  [][(files.anchor # NoneIdx /\ files'.anchor = NoneIdx) => files'.sel = {}]_vars

\* ---- Claims C25, C26: the selection across a list refresh ----

\* C25: retain_existing leaves the previous selection intersected with the
\* key set it is given, for every selection and every key set ({b,c,d}
\* retained against {a,c,e} leaves {c}); a successful refresh of the file
\* list applies it with the paths of the refreshed list.
C25_RefreshIntersects ==
  /\ [](/\ \A valid \in SUBSET BatchPaths :
             LET kept == retain_existing(files.sel, valid)
             IN /\ kept \subseteq files.sel
                /\ kept \subseteq valid
                /\ \A k \in files.sel : k \in valid => k \in kept
        /\ retain_existing({"b", "c", "d"}, {"a", "c", "e"}) = {"c"})
  /\ [][((FilesRefreshKey \/ FilesRemoveSelected) /\ files'.last_error = None) =>
          /\ {files'.entries[i] : i \in 1..Len(files'.entries)} = daemon'.files
          /\ files'.sel = {k \in files.sel : k \in daemon'.files}]_vars

\* A refresh found one of two selected files gone and kept the other
C25_Witness ==
  /\ daemon.files = {"p2"}
  /\ files.entries = <<"p2">>
  /\ files.sel = {"p2"}
  /\ files.last_error = None

\* C26: a refresh that empties the list leaves no anchor and no selection.
C26_EmptyListClearsAnchor ==
  [][(files.entries # <<>> /\ files'.entries = <<>>) =>
       files'.anchor = NoneIdx /\ files'.sel = {}]_vars

\* ---- Claims C29, C30: subseq_score ----

\* Two characters that are equal when the case of ASCII letters is ignored
EqIgnoreCase(x, y) == x = y \/ {x, y} = {"a", "A"}

\* query is a subsequence of label, the case of letters ignored
IsSubsequence(query, label) ==
  \E f \in [1..Len(query) -> 1..Len(label)] :
    /\ \A i \in 1..Len(query) : EqIgnoreCase(query[i], label[f[i]])
    /\ \A i \in 1..(Len(query) - 1) : f[i] < f[i + 1]

\* The positions m are those of the greedy leftmost match of query in label
GreedyPositions(m, query, label) ==
  /\ Len(m) = Len(query)
  /\ \A i \in 1..Len(m) :
       /\ m[i] \in 0..(Len(label) - 1)
       /\ EqIgnoreCase(query[i], label[m[i] + 1])
       /\ i > 1 => m[i - 1] < m[i]
       /\ \A j \in 0..(m[i] - 1) :
            (i = 1 \/ m[i - 1] < j) => ~EqIgnoreCase(query[i], label[j + 1])

C30_Score ==
  files.picker.items # <<>> =>
    LET label == files.picker.items[1]
        query == files.picker.query
        r == subseq_score(label, query)
        Adjacent(m) == {i \in 1..Len(m) : i < Len(m) /\ m[i + 1] - m[i] = 1}
        Expected(m) == 10 * Len(query) + 15 * Cardinality(Adjacent(m)) - m[1]
    IN /\ (query # <<>> /\ r # None) =>
            r[1].score = Expected(r[1].match_indices)
       /\ (query # <<>> /\ trim(query) = query /\ files.picker.visible # <<>>) =>
            files.picker.visible[1].score = Expected(files.picker.visible[1].match_indices)

\* A match of two adjacent characters that starts at the second character
C30_Witness ==
  /\ files.picker.items = <<<<"e'", "a", "A", "E'">>>>
  /\ files.picker.query = <<"A", "a">>
  /\ Len(files.picker.visible) = 1
  /\ files.picker.visible[1].match_indices = <<1, 2>>
  /\ files.picker.visible[1].score = 34

\* ---- Claims C31, C32: the order of the visible rows ----

\* The label of a visible row
LabelOf(pk, row) == pk.items[row.item_idx + 1]

\* The visible rows are exactly the items the query matches, each once
ShowsTheMatches(pk) ==
  /\ {pk.visible[i].item_idx : i \in 1..Len(pk.visible)} =
       {i - 1 : i \in {k \in 1..Len(pk.items) :
                         subseq_score(pk.items[k], trim(pk.query)) # None}}
  /\ \A i \in 1..Len(pk.visible), j \in 1..Len(pk.visible) :
       pk.visible[i].item_idx = pk.visible[j].item_idx => i = j
  /\ \A i \in 1..Len(pk.visible) :
       pk.visible[i].score =
         subseq_score(LabelOf(pk, pk.visible[i]), trim(pk.query))[1].score

\* C31: for a query that is not empty the visible rows are exactly the
\* matching labels, in the order of descending score, rows of equal score in
\* the ascending order of their labels compared without regard to case.
C31_RankedIgnoringCase ==
  trim(files.picker.query) # <<>> =>
    /\ ShowsTheMatches(files.picker)
    /\ \A i \in 1..Len(files.picker.visible), j \in 1..Len(files.picker.visible) :
         i < j =>
           LET a == files.picker.visible[i]
               b == files.picker.visible[j]
           IN /\ a.score >= b.score
              /\ a.score = b.score =>
                   ~StrLess(to_lowercase(LabelOf(files.picker, b)),
                            to_lowercase(LabelOf(files.picker, a)))

\* The label starts with "do"
StartsWithDo(label) == Len(label) >= 2 /\ label[1] = "d" /\ label[2] = "o"

\* The label does not start with "do" and has "do" further on
HasDoLater(label) ==
  /\ ~StartsWithDo(label)
  /\ \E k \in 2..(Len(label) - 1) : label[k] = "d" /\ label[k + 1] = "o"

\* The row of the item with this label, 0 if it is not visible
RowOf(pk, label) ==
  LET rows == {i \in 1..Len(pk.visible) : LabelOf(pk, pk.visible[i]) = label}
  IN IF rows = {} THEN 0 ELSE CHOOSE i \in rows : TRUE

\* C32: for the query "do" every label that starts with "do" scores strictly
\* higher than every label that has "do" only further on, and its row is
\* listed before the row of that label.
C32_PrefixRanksFirst ==
  /\ \A x \in RankLabels, y \in RankLabels :
       (StartsWithDo(x) /\ HasDoLater(y)) =>
         /\ subseq_score(x, <<"d", "o">>) # None
         /\ subseq_score(y, <<"d", "o">>) # None
         /\ subseq_score(x, <<"d", "o">>)[1].score > subseq_score(y, <<"d", "o">>)[1].score
  /\ trim(files.picker.query) = <<"d", "o">> =>
       \A i \in 1..Len(files.picker.items), j \in 1..Len(files.picker.items) :
         LET x == files.picker.items[i]
             y == files.picker.items[j]
         IN (StartsWithDo(x) /\ HasDoLater(y)) =>
              /\ RowOf(files.picker, x) >= 1
              /\ RowOf(files.picker, x) < RowOf(files.picker, y)

\* "ddo" is listed before "doX" until "do" is typed, and after it then
C32_Witness ==
  /\ files.picker.items = <<<<"d", "d", "o">>, <<"d", "o", "X">>>>
  /\ files.picker.query = <<"d", "o">>
  /\ Len(files.picker.visible) = 2
  /\ files.picker.visible[1].item_idx = 1
  /\ files.picker.visible[1].score = 35
  /\ files.picker.visible[2].score = 20

\* ---- Claim C33: a modal captures the keys ----

\* The new-topic dialog or the file picker is open on the active tab
ModalOpen ==
  \/ app.active_tab = "Network" /\ net.topic_new.open
  \/ app.active_tab = "Files" /\ files.picker.open

\* C33: while a modal is open on the active tab no key press quits the
\* application or switches the tab.
C33_ModalCapturesKeys ==
  [][ModalOpen => /\ app'.should_quit = app.should_quit
                  /\ app'.active_tab = app.active_tab]_vars

\* ---- Claim C34: the marks of the file picker and the query ----

\* The labels of the visible rows
VisibleLabels(pk) == {LabelOf(pk, pk.visible[i]) : i \in 1..Len(pk.visible)}

\* C34: a change of the search query (a character typed, backspace, Esc
\* clearing it) recomputes the visible rows and leaves the set of selected
\* paths as it was, also the paths whose rows are filtered away.
C34_FilterKeepsSelection ==
  [][(files.picker.open /\ files'.picker.open
        /\ files'.picker.query # files.picker.query) =>
       /\ files'.picker.sel = files.picker.sel
       /\ files'.picker.visible = recompute_visible(files'.picker).visible]_vars

\* A marked entry is filtered away by the query and is still marked
C34_Witness ==
  /\ files.picker.open
  /\ files.picker.query = <<"o">>
  /\ files.picker.sel = {<<"X", "d">>}
  /\ <<"X", "d">> \notin VisibleLabels(files.picker)
  /\ VisibleLabels(files.picker) = {<<"d", "o">>}

\* ---- Claim C35: the counts of a verify summary ----

\* C35: the summary of every batch that ends has total equal to the number
\* of paths of the batch and ok + failed = total, whatever the responses
\* hold, a successful response without a boolean `valid` included.
C35_TotalIsBatchSize ==
  \A i \in 1..Len(vjobs) :
    vjobs[i].sent = "Done" =>
      /\ VerifyValue(vjobs[i]).summary.total = Len(vjobs[i].paths)
      /\ VerifyValue(vjobs[i]).summary.ok + VerifyValue(vjobs[i]).summary.failed
           = VerifyValue(vjobs[i]).summary.total

\* ---- Claim C36: the join/leave busy indicator ----

\* The thread dispatched last has not sent its terminal message, or the
\* message is on the channel and poll_async has not received it
LatestPending ==
  /\ jl_jobs # <<>>
  /\ \/ jl_jobs[Len(jl_jobs)].pc # "done"
     \/ \E k \in 1..Len(net.join_leave_q) : net.join_leave_q[k].job = Len(jl_jobs)

\* C36: the busy indicator is set exactly while the terminal message of the
\* join/leave job dispatched last has not been consumed: set at dispatch,
\* cleared when poll_async consumes that job's Done or Error, and cleared
\* neither by the message of a superseded job nor by a refresh.
C36_BusyWhileLatestPending ==
  /\ [](net.join_leave_busy # None <=> LatestPending)
  /\ [][(net.join_leave_busy # None /\ net'.join_leave_busy = None) =>
          /\ ui_pc = "poll"
          /\ \E k \in 1..Len(net.join_leave_q) :
               /\ net.join_leave_q[k].job = Len(jl_jobs)
               /\ net.join_leave_q[k].req_id = net.join_leave_req_id]_vars
  /\ [][Len(jl_jobs') > Len(jl_jobs) => net'.join_leave_busy # None]_vars

\* A superseded job has ended and a refresh has shown its effect while the
\* latest job is still running: the indicator is up
C36_Witness ==
  /\ Len(jl_jobs) = 2
  /\ jl_jobs[1].pc = "done"
  /\ jl_jobs[1].dropped
  /\ jl_jobs[2].pc # "done"
  /\ net.shown_ver > 0
  /\ net.join_leave_busy # None

\* ---- Claim C37: the info shown and the focused path ----

\* C37: whenever file info is shown it is the files.info result for the path
\* now focused, whatever the order of focus changes and completions of info
\* threads: a result requested for a path focused before is never the info
\* of the present focus.
C37_InfoIsOfFocusedPath ==
  /\ files.last_info # None =>
       /\ files.focused_path = Some(files.last_info[1])
       /\ selected_path(files) = files.focused_path
  /\ \A k \in 1..Len(files.info_q) :
       LET m == files.info_q[k]
       IN (m.ok /\ InfoApply(files, m).last_info # files.last_info) =>
            /\ ijobs[m.job].path = m.path
            /\ files.focused_path = Some(m.path)
            /\ m.job = Len(ijobs)

\* The thread asked about p1 answered after the focus had moved to p2, whose
\* info is shown
C37_Witness ==
  /\ Len(ijobs) >= 2
  /\ ijobs[1].path = "p1"
  /\ ijobs[1].pc = "done"
  /\ ijobs[1].dropped
  /\ files.focused_path = Some("p2")
  /\ files.last_info = Some("p2")
\* ---- Claim C38: the marked paths and the list shown ----
ListedPaths == {files.entries[k] : k \in 1..Len(files.entries)}

\* C38: on the Files tab every marked path is the path of a listed entry,
\* whatever toggles, range selections, select-all, inversions, clears,
\* refreshes (answered or failed) and removals were done; so no path handed
\* to verify or remove is missing from the list.
C38_MarksAreListed ==
  /\ files.sel \subseteq ListedPaths
  /\ \A k \in 1..Len(TargetPaths(files)) : TargetPaths(files)[k] \in ListedPaths

\* Both rows were marked, the second was then removed by the daemon's side
\* of a removal and the list reloaded: the mark of the row left remains
C38_Witness ==
  /\ files.entries = <<"p1">>
  /\ files.sel = {"p1"}
  /\ daemon.files = {"p1"}
  /\ files.anchor = 1

\* ---- Claim C39: the focused row after the list was replaced ----

\* The focus is absent exactly when there is no row, and is a row otherwise
FocusIsARow(rows, selected) ==
  /\ (selected = NoneIdx) <=> (rows = <<>>)
  /\ selected # NoneIdx => selected < Len(rows)

\* C39: whenever a refresh or an applied job result replaces the topic list
\* or the file list, the focus of that list is absent exactly when the new
\* list is empty and is otherwise one of its rows, also when the new list
\* is shorter than the old one.
C39_FocusFollowsList ==
  [][/\ files'.entries # files.entries => FocusIsARow(files'.entries, files'.selected)
     /\ net'.topics # net.topics => FocusIsARow(net'.topics, net'.selected)]_vars

\* ---- Claim C40: the log buffer ----

\* The last n elements of s, all of s if it has no more
LastN(s, n) == IF Len(s) <= n THEN s ELSE SubSeq(s, Len(s) - n + 1, Len(s))

\* The entries of the "log" events among evts, in order
RECURSIVE LogsOf(_)
LogsOf(evts) ==
  IF evts = <<>> THEN <<>>
  ELSE IF Head(evts).kind = "Log" THEN <<Head(evts).log>> \o LogsOf(Tail(evts))
  ELSE LogsOf(Tail(evts))

\* C40: the log buffer never holds more than logs_max entries; it holds the
\* most recent entries in the order of their arrival; and a new entry that
\* arrives at a full buffer evicts the oldest entry and no other.
C40_BoundedFifo ==
  /\ [](/\ Len(app.logs) <= LogsMax
        /\ \E n \in PriorLens :
             app.logs = LastN(PriorLogs(n) \o LogsOf(delivered), LogsMax))
  /\ [][(HandleEvent /\ Head(evt_q).kind = "Log" /\ Len(app.logs) = LogsMax) =>
          app'.logs = Append(Tail(app.logs), Head(evt_q).log)]_vars

\* Two entries arrived at a full buffer: the two oldest are gone, the third
\* oldest is now the first and the new entries are the last two
C40_Witness ==
  /\ Len(app.logs) = LogsMax
  /\ app.logs[1].ts = Decimal(3)
  /\ app.logs[LogsMax - 1].message = <<"m1">>
  /\ app.logs[LogsMax].level = <<"info">>
  /\ app.logs[LogsMax].message = <<>>

====
